---- MODULE Spec2Model ----
(***************************************************************************)
(* A model of the wenling article archiver (src/wenling/archiver.py and    *)
(* its collaborators under src/wenling/common).                            *)
(*                                                                         *)
(* Strings are sequences of tokens.  A token is one character, except the  *)
(* two run tokens "K" and "M", which stand for a fixed run of 999 and of   *)
(* 1000 ordinary characters, so that texts near the 2000 character cap of  *)
(* _consolidate_content can be written down.  len() is StrLen, + is \o.    *)
(*                                                                         *)
(* A content block is a Python dict; it is modelled as a record with the   *)
(* fields type, text and url, a field holding NoField when the dict has    *)
(* no such key.                                                            *)
(***************************************************************************)
EXTENDS Integers, Sequences, FiniteSets, TLC

VARIABLES
    \* ---- Archiver._consolidate_content applied to one block list
    content,          \* the argument of _consolidate_content
    consolidated,     \* its outcome: [raised, out]
    consolidated_again, \* the outcome of the call on the list returned by the first call
    content_after,    \* the argument list as the caller sees it after the call
    cpc,              \* "call" before the call, "done" after it
    \* ---- WebPageArchiver._parse_title applied to one page head
    head_title,       \* text of <head><title>, or NoElement
    og_title,         \* content of meta[property='og:title'], or NoElement
    twitter_title,    \* content of meta[property='twitter:title'], or NoElement
    title,            \* the value returned by _parse_title
    tpc,              \* "call" before the call, "done" after it
    \* ---- one ArchiverOrchestrator.archive(url) operation
    pc,               \* position of the operation
    url,              \* the url argument
    path,             \* the archiver chosen: "wechat", "web" ("none" before the choice)
    url_exists,       \* "unchecked", "yes" or "no": what check_url_exists returned
    fetches,          \* calls of fetch_url_content
    service_calls,    \* calls of self.model.inference (structuring and tagging)
    cache,            \* the dedup cache of WechatArticleArchiver._parse_content (its keys)
    has_descendants,  \* the flag of _parse_section for the section being walked
    units,            \* sections and nodes of the content root walked so far
    paragraphs,       \* the block list being built by _parse_content (before consolidation)
    block_batch,      \* history: for each block of paragraphs, the batch_id it came from
    num_segments,     \* len(unique_segments) in WebPageArchiver._parse_content
    batch_id,         \* the loop variable of the batch loop
    responses,        \* history: the structuring service's outcome for each batch so far
    article_json_obj, \* the local of _archive: unbound, or properties and children
    archive_raised,   \* history: some step of _archive raised
    malformed_visited,\* history: the classifier was called on a malformed image node
    root_missing,     \* history: #js_content was absent from the fetched tree
    result,           \* outcome of archive: pending, returned (a page id) or raised
    store_calls,      \* calls of NotionStorage.store
    stored,           \* the object handed to the last store call
    store_reply,      \* what that store call answered
    image_outcome,    \* history: how the image host behaved during that store call
    page_request,     \* the notion.pages.create request of that store call: [sent, children]
    page_tags,        \* history: the texts of the .article-tag__item elements
    page_author,      \* history: what _parse_author returned
    tag_reply,        \* history: what the tagging service answered
    section_start,    \* history: len(paragraphs) when the current section was entered
    section_text,     \* history: get_text() of the section left last, when the fallback read it
    invoked,          \* history: the archivers whose archive() the orchestrator called
    block_origin,     \* history: for each block of paragraphs, the loop that appended it
    last_call,        \* history: the last classifier call: [called, node, cache, blocks]
    batch_sizes,      \* history: len(segment_tags) of each _parse_segment call
    \* ---- two archive operations on one WechatArticleArchiver instance
    running,          \* the operation the event loop is running, 0 when none
    op_pc,            \* position of each operation
    op_cache,         \* the local cache of each operation's _parse_content
    op_blocks,        \* the list each operation's _parse_content is building
    op_nodes,         \* history: the nodes each operation's walker met
    recorded,         \* history: every value some operation recorded in its cache
    \* ---- one call of check_url_exists and one of fetch_url_content (common/utils.py)
    site,             \* how the server of the url answers: [get, head]
    upc,              \* check_url_exists: "call" before the call, "done" after it
    http_calls,       \* history: the requests.* calls of check_url_exists, [method, url]
    url_result,       \* outcome of check_url_exists
    css_selector,     \* the css_selector argument of fetch_url_content
    fpc,              \* fetch_url_content: "call", "done"
    fetch_requests,   \* requests.get calls issued by fetch_url_content
    fetch_seen,       \* history: what each of these requests.get calls gave
    fetch_result,     \* outcome of fetch_url_content
    \* ---- one call of OpenAIChatModel.inference (common/model_utils.py)
    ipc,              \* "call", "done"
    inf_attempts,     \* calls of self.client.chat.completions.create
    inf_seen,         \* history: what each of these calls gave
    inf_result,       \* outcome of inference
    \* ---- WechatArticleArchiver._parse_author, _parse_publish_time, _parse_tags on one page
    author_element,   \* text of the .rich_media_meta.rich_media_meta_text element, or NoElement
    time_element,     \* text of the .detail-time element, or NoElement
    tag_elements,     \* texts of the .article-tag__item elements
    author_out,       \* outcome of _parse_author
    time_out,         \* outcome of _parse_publish_time
    tags_out,         \* outcome of _parse_tags
    \* ---- the nested-segment filter of WebPageArchiver._parse_content on one body
    seg_names,        \* tag name of each node under body, in document order
    seg_parent,       \* parent of each node, 0 for body
    unique_segments,  \* the list unique_segments, as positions in document order
    spc,              \* "call", "done"
    \* ---- one call of NotionStorage._add_to_database (common/notion_utils.py)
    db_blocks,        \* json_obj["children"]
    db_request,       \* the pages.create request: [sent, children]
    db_error,         \* the exception that left _add_to_database, "" when none
    dpc               \* "call", "done"

consVars == <<content, consolidated, consolidated_again, content_after, cpc>>
titleVars == <<head_title, og_title, twitter_title, title, tpc>>
archVars == <<pc, url, path, url_exists, fetches, service_calls, cache, has_descendants,
              units, paragraphs, block_batch, num_segments, batch_id, responses,
              article_json_obj, archive_raised, malformed_visited, root_missing,
              result, store_calls, stored, store_reply, image_outcome,
              page_request, page_tags, page_author,
              tag_reply, section_start, section_text, invoked, block_origin, last_call,
              batch_sizes>>
opVars == <<running, op_pc, op_cache, op_blocks, op_nodes, recorded>>
utilVars == <<site, upc, http_calls, url_result, css_selector, fpc, fetch_requests,
              fetch_seen, fetch_result>>
modelVars == <<ipc, inf_attempts, inf_seen, inf_result>>
metaVars == <<author_element, time_element, tag_elements, author_out, time_out, tags_out>>
segVars == <<seg_names, seg_parent, unique_segments, spc>>
dbVars == <<db_blocks, db_request, db_error, dpc>>
lateVars == <<metaVars, segVars, dbVars>>
vars == <<consVars, titleVars, archVars, opVars, utilVars, modelVars, lateVars>>

-----------------------------------------------------------------------------
(* Bounds of the model.                                                    *)

MaxBlocks == 3        \* longest block list handed to _consolidate_content
MaxTitleLen == 2      \* longest raw title text, in characters

-----------------------------------------------------------------------------
(* Strings.                                                                *)

NL == "\n"
SP == " "

\* number of characters a token stands for
CharLen(c) == CASE c = "K" -> 999
                [] c = "M" -> 1000
                [] OTHER -> 1

RECURSIVE StrLen(_)
StrLen(s) == IF s = <<>> THEN 0 ELSE CharLen(Head(s)) + StrLen(Tail(s))

IsSpace(c) == c \in {SP, NL}

RECURSIVE LStrip(_)
LStrip(s) == IF s # <<>> /\ IsSpace(Head(s)) THEN LStrip(Tail(s)) ELSE s

RECURSIVE RStrip(_)
RStrip(s) == IF s # <<>> /\ IsSpace(s[Len(s)]) THEN RStrip(SubSeq(s, 1, Len(s) - 1)) ELSE s

\* str.strip()
Strip(s) == RStrip(LStrip(s))

\* all strings over alphabet A of at most n tokens
StringsUpTo(A, n) == UNION {[1..k -> A] : k \in 0..n}

-----------------------------------------------------------------------------
(* Blocks.                                                                 *)

NoField == <<"<no such key>">>       \* dict has no such key
NotADict == "<not a dict>"           \* the list item is not a dict at all
NoType == "<no type key>"            \* a dict without the key "type"

Block(t, txt, u) == [type |-> t, text |-> txt, url |-> u]
TextBlock(t, txt) == Block(t, txt, NoField)
UrlBlock_WithText(t, u) == Block(t, u, u)
UrlBlock(t, u) == Block(t, NoField, u)

Last(s) == s[Len(s)]

-----------------------------------------------------------------------------
(* Archiver._consolidate_content, archiver.py 103-119.                     *)

MaxTextLen == 2000

\* one iteration of the loop "for block in content", on the accumulator
\* acc = [raised, out]; raised is set when the iteration raises
\* (TypeError for an item that is not a dict, KeyError for a missing key).
ConsolidateStep_NoSeparator(acc, block) ==
    IF acc.raised THEN acc
    ELSE IF block.type \in {NotADict, NoType} THEN [acc EXCEPT !.raised = TRUE]
    ELSE IF block.type \in {"text", "code"}
              /\ acc.out # <<>> /\ Last(acc.out).type = block.type
         THEN IF Last(acc.out).text = NoField \/ block.text = NoField
              THEN [acc EXCEPT !.raised = TRUE]
              ELSE IF StrLen(Last(acc.out).text) + StrLen(block.text) < MaxTextLen
                   THEN [acc EXCEPT !.out[Len(acc.out)].text = @ \o block.text]
                   ELSE [acc EXCEPT !.out = Append(@, block)]
         ELSE [acc EXCEPT !.out = Append(@, block)]

\* variant: the block is merged into the most recent block of its kind, even
\* when blocks of other kinds were appended after it
LastOfKind(out, t) ==
    IF \E i \in 1..Len(out) : out[i].type = t
    THEN CHOOSE i \in 1..Len(out) : out[i].type = t /\ \A j \in (i + 1)..Len(out) : out[j].type # t
    ELSE 0

ConsolidateStep_AcrossKinds(acc, block) ==
    IF acc.raised THEN acc
    ELSE IF block.type \in {NotADict, NoType} THEN [acc EXCEPT !.raised = TRUE]
    ELSE IF block.type \in {"text", "code"} /\ LastOfKind(acc.out, block.type) # 0
         THEN IF acc.out[LastOfKind(acc.out, block.type)].text = NoField \/ block.text = NoField
              THEN [acc EXCEPT !.raised = TRUE]
              ELSE IF StrLen(acc.out[LastOfKind(acc.out, block.type)].text) + StrLen(block.text)
                        < MaxTextLen
                   THEN [acc EXCEPT !.out[LastOfKind(acc.out, block.type)].text =
                                        @ \o <<NL>> \o block.text]
                   ELSE [acc EXCEPT !.out = Append(@, block)]
         ELSE [acc EXCEPT !.out = Append(@, block)]

\* variant: the comparison with the cap is inverted
ConsolidateStep_InvertedCap(acc, block) ==
    IF acc.raised THEN acc
    ELSE IF block.type \in {NotADict, NoType} THEN [acc EXCEPT !.raised = TRUE]
    ELSE IF block.type \in {"text", "code"}
              /\ acc.out # <<>> /\ Last(acc.out).type = block.type
         THEN IF Last(acc.out).text = NoField \/ block.text = NoField
              THEN [acc EXCEPT !.raised = TRUE]
              ELSE IF StrLen(Last(acc.out).text) + StrLen(block.text) >= MaxTextLen
                   THEN [acc EXCEPT !.out[Len(acc.out)].text = @ \o <<NL>> \o block.text]
                   ELSE [acc EXCEPT !.out = Append(@, block)]
         ELSE [acc EXCEPT !.out = Append(@, block)]

ConsolidateStep(acc, block) ==
    IF acc.raised THEN acc
    ELSE IF block.type \in {NotADict, NoType} THEN [acc EXCEPT !.raised = TRUE]
    ELSE IF block.type \in {"text", "code"}
              /\ acc.out # <<>> /\ Last(acc.out).type = block.type
         THEN IF Last(acc.out).text = NoField \/ block.text = NoField
              THEN [acc EXCEPT !.raised = TRUE]
              ELSE IF StrLen(Last(acc.out).text) + StrLen(block.text) < MaxTextLen
                   THEN [acc EXCEPT !.out[Len(acc.out)].text = @ \o <<NL>> \o block.text]
                   ELSE [acc EXCEPT !.out = Append(@, block)]
         ELSE [acc EXCEPT !.out = Append(@, block)]

RECURSIVE ConsolidateFrom(_, _)
ConsolidateFrom(acc, blocks) ==
    IF blocks = <<>> THEN acc
    ELSE ConsolidateFrom(ConsolidateStep(acc, Head(blocks)), Tail(blocks))

\* _consolidate_content(content): [raised, out]
Consolidate(blocks) == ConsolidateFrom([raised |-> FALSE, out |-> <<>>], blocks)

\* The same loop on objects.  The items of the argument list are dict
\* objects: heap[i] is the i-th of them, and the list being built holds
\* references, refs[k] being the index of the object at position k.
\* consolidated_content.append(block) appends the object itself, and
\* consolidated_content[-1]["text"] += ... (line 112) writes into it.
ConsolidateObjStep(st, i) ==
    IF st.raised THEN st
    ELSE IF st.heap[i].type \in {NotADict, NoType} THEN [st EXCEPT !.raised = TRUE]
    ELSE IF st.heap[i].type \in {"text", "code"}
              /\ st.refs # <<>> /\ st.heap[Last(st.refs)].type = st.heap[i].type
         THEN IF st.heap[Last(st.refs)].text = NoField \/ st.heap[i].text = NoField
              THEN [st EXCEPT !.raised = TRUE]
              ELSE IF StrLen(st.heap[Last(st.refs)].text) + StrLen(st.heap[i].text) < MaxTextLen
                   THEN [st EXCEPT !.heap[Last(st.refs)].text = @ \o <<NL>> \o st.heap[i].text]
                   ELSE [st EXCEPT !.refs = Append(@, i)]
         ELSE [st EXCEPT !.refs = Append(@, i)]

RECURSIVE ConsolidateObjFrom(_, _)
ConsolidateObjFrom(st, i) ==
    IF i > Len(st.heap) THEN st ELSE ConsolidateObjFrom(ConsolidateObjStep(st, i), i + 1)

\* [raised, heap, refs]: the objects of the argument after the call and the
\* returned list of references to them
ConsolidateInPlace(blocks) ==
    ConsolidateObjFrom([raised |-> FALSE, heap |-> blocks, refs |-> <<>>], 1)

-----------------------------------------------------------------------------
(* The block lists _consolidate_content is applied to.                     *)

ConsBlocks ==
    {TextBlock("text", <<c>>) : c \in {"a", "K", "M"}}
    \cup {TextBlock("code", <<c>>) : c \in {"b", "K", "M"}}
    \cup {TextBlock("h2", <<"a">>), UrlBlock("image", <<"u">>)}

ConsInputs == UNION {[1..k -> ConsBlocks] : k \in 0..MaxBlocks}

ConsInit ==
    /\ content \in ConsInputs
    /\ consolidated = [raised |-> FALSE, out |-> <<>>]
    /\ consolidated_again = [raised |-> FALSE, out |-> <<>>]
    /\ content_after = content
    /\ cpc = "call"

CallConsolidate ==
    /\ cpc = "call"
    /\ consolidated' = Consolidate(content)
    /\ content_after' = ConsolidateInPlace(content).heap
    /\ cpc' = "done"
    /\ UNCHANGED <<content, consolidated_again, titleVars, archVars, opVars, utilVars,
                   modelVars, lateVars>>

\* _consolidate_content applied to the list the first call returned
CallConsolidateAgain ==
    /\ cpc = "done"
    /\ ~consolidated.raised
    /\ consolidated_again' = Consolidate(consolidated.out)
    /\ cpc' = "again"
    /\ UNCHANGED <<content, consolidated, content_after, titleVars, archVars, opVars,
                   utilVars, modelVars, lateVars>>

-----------------------------------------------------------------------------
(* WebPageArchiver._parse_title, archiver.py 375-398.                      *)

NoElement == <<"<no element>">>      \* select_one returned None
Untitled == <<"U", "n", "t", "i", "t", "l", "e", "d">>

\* "x and x.get_text().strip()" / "x and x.get('content', '').strip()"
HasTitleText(src) == src # NoElement /\ Strip(src) # <<>>

ParseTitle_OgFirst(t, og, tw) ==
    IF HasTitleText(og) THEN Strip(og)
    ELSE IF HasTitleText(t) THEN Strip(t)
    ELSE IF HasTitleText(tw) THEN Strip(tw)
    ELSE Untitled

ParseTitle(t, og, tw) ==
    IF HasTitleText(t) THEN Strip(t)
    ELSE IF HasTitleText(og) THEN Strip(og)
    ELSE IF HasTitleText(tw) THEN Strip(tw)
    ELSE Untitled

TitleSources == StringsUpTo({SP, "a", "b"}, MaxTitleLen) \cup {NoElement}

TitleInit ==
    /\ head_title \in TitleSources
    /\ og_title \in TitleSources
    /\ twitter_title \in TitleSources
    /\ title = <<>>
    /\ tpc = "call"

CallParseTitle ==
    /\ tpc = "call"
    /\ title' = ParseTitle(head_title, og_title, twitter_title)
    /\ tpc' = "done"
    /\ UNCHANGED <<head_title, og_title, twitter_title, consVars, archVars, opVars, utilVars,
                   modelVars, lateVars>>

-----------------------------------------------------------------------------
(* The markup tree, as the specialized (WeChat) path reads it.             *)
(*                                                                         *)
(* A node is a Tag handed to _parse_paragraph:                             *)
(*   name      tag name                                                    *)
(*   centered  "text-align: center;" occurs in its style attribute         *)
(*   strong    get_text() of its first <strong> descendant, or NoElement   *)
(*   img       data-src of its first <img> descendant; NoField when that   *)
(*             image has no data-src attribute; NoElement when no image    *)
(*   contents  its direct children: [name, text, string], string being    *)
(*             child.string (NoElement for None)                           *)
(*   text      its get_text()                                              *)
(*   items     get_text() of each <li> descendant                          *)
(*   video     its data-src attribute when it carries the video marker     *)
(*             data-vw, NoField when it carries no marker                  *)

TxtA == <<"a">>
TxtB == <<"b">>
UrlU == <<"u">>

Node(n, c, s, i, k, t, l) ==
    [name |-> n, centered |-> c, strong |-> s, img |-> i, contents |-> k, text |-> t,
     items |-> l, video |-> NoField]

VideoSpan(t, v) == [Node("span", FALSE, NoElement, NoElement, <<>>, t, <<>>) EXCEPT !.video = v]

StrongChild(t) == [name |-> "strong", text |-> t, string |-> t]
TextChild(t) == [name |-> "#text", text |-> t, string |-> t]

PNodes ==
    \* <p style="text-align: center;"><strong>..</strong></p>, with or without an image
    {Node("p", TRUE, TxtA, i, <<StrongChild(TxtA)>>, TxtA, <<>>) : i \in {NoElement, NoField}}
    \* <p><img ...></p>
    \cup {Node("p", FALSE, NoElement, i, <<>>, <<>>, <<>>) : i \in {UrlU, NoField}}
    \* <p>text and <strong> children</p>
    \cup {Node("p", FALSE, NoElement, NoElement, <<TextChild(t)>>, t, <<>>) :
            t \in {TxtA, <<SP, "a">>, TxtB, <<SP>>}}
    \cup {Node("p", FALSE, TxtA, NoElement, <<StrongChild(TxtA), TextChild(TxtB)>>,
               <<"a", "b">>, <<>>)}

OtherNodes ==
    {Node("blockquote", FALSE, NoElement, NoElement, <<>>, t, <<>>) : t \in {TxtA, <<>>}}
    \cup {Node("span", FALSE, NoElement, NoElement, <<>>, t, <<>>) : t \in {TxtB, <<>>}}
    \cup {VideoSpan(t, UrlU) : t \in {<<>>, TxtA}}
    \cup {Node("ul", FALSE, NoElement, NoElement, <<>>, <<"a", "b">>, <<TxtA, TxtB>>),
          Node("ol", FALSE, NoElement, NoElement, <<>>, <<>>, <<<<>>>>)}
    \cup {Node("figure", FALSE, NoElement, i, <<>>, <<>>, <<>>) : i \in {UrlU, NoField, NoElement}}

\* the nodes the walker hands to the classifier
Nodes == PNodes \cup OtherNodes

\* section.get_text() of a section without recognized descendants
SectionTexts == {TxtA, <<SP, "b">>, <<>>}

-----------------------------------------------------------------------------
(* WechatArticleArchiver._parse_paragraph, archiver.py 193-268.            *)
(* The classifier's state is st = [raised, blocks, cache].                 *)

\* "if value not in cache: parsed_elements.append(block); cache[value] = True"
Emit_NoRecord(st, value, block) ==
    IF value \in st.cache THEN st
    ELSE [st EXCEPT !.blocks = Append(@, block)]

Emit(st, value, block) ==
    IF value \in st.cache THEN st
    ELSE [st EXCEPT !.blocks = Append(@, block), !.cache = @ \cup {value}]

\* one iteration of "for child in paragraph_tag.contents", lines 214-225
ParseChild(st, child) ==
    IF child.name = "strong"
    THEN Emit(st, Strip(child.text), TextBlock("h2", Strip(child.text)))
    ELSE IF child.string # NoElement /\ child.string # <<>> /\ Strip(child.string) # <<>>
         THEN Emit(st, Strip(child.string), TextBlock("text", Strip(child.string)))
         ELSE st

RECURSIVE ParseChildren(_, _)
ParseChildren(st, children) ==
    IF children = <<>> THEN st
    ELSE ParseChildren(ParseChild(st, Head(children)), Tail(children))

\* one iteration of "for li in paragraph_tag.find_all('li')", lines 243-248
RECURSIVE ParseItems(_, _)
ParseItems(st, items) ==
    IF items = <<>> THEN st
    ELSE ParseItems(IF Strip(Head(items)) # <<>>
                    THEN Emit(st, Strip(Head(items)), TextBlock("text", Strip(Head(items))))
                    ELSE st,
                    Tail(items))

\* paragraph_tag.find("img")["data-src"], lines 209-212 and 255-258:
\* TypeError when there is no image, KeyError when it has no data-src
ParseImage_SkipMalformed(st, node) ==
    IF node.img \in {NoElement, NoField}
    THEN st
    ELSE Emit(st, node.img, UrlBlock("image", node.img))

ParseImage(st, node) ==
    IF node.img \in {NoElement, NoField}
    THEN [st EXCEPT !.raised = TRUE]
    ELSE Emit(st, node.img, UrlBlock("image", node.img))

\* lines 238-241: the rule for a span that carries the video marker
SpanVideo(st, node) == Emit(st, node.video, UrlBlock("video", node.video))

\* lines 232-236: the rule for a span
SpanText_VideoAware(st, node) ==
    IF node.video # NoField THEN SpanVideo(st, node)
    ELSE IF Strip(node.text) # <<>>
         THEN Emit(st, Strip(node.text), TextBlock("text", Strip(node.text)))
         ELSE st

SpanText(st, node) ==
    IF Strip(node.text) # <<>>
    THEN Emit(st, Strip(node.text), TextBlock("text", Strip(node.text)))
    ELSE st

\* _parse_paragraph(paragraph_tag, cache): [raised, blocks, cache]
ParseParagraph(node, c) ==
    LET st == [raised |-> FALSE, blocks |-> <<>>, cache |-> c] IN
    IF node.name = "p"
    THEN IF node.centered /\ node.strong # NoElement
         THEN Emit(st, Strip(node.strong), TextBlock("h2", Strip(node.strong)))
         ELSE IF node.img # NoElement
              THEN ParseImage(st, node)
              ELSE ParseChildren(st, node.contents)
    ELSE IF node.name = "blockquote"
    THEN Emit(st, Strip(node.text), TextBlock("quote", Strip(node.text)))
    ELSE IF node.name = "span"
    THEN SpanText(st, node)
    ELSE IF node.name = "span" /\ node.video # NoField
    THEN SpanVideo(st, node)
    ELSE IF node.name \in {"ul", "ol"}
    THEN ParseItems(st, node.items)
    ELSE IF node.name = "em"
    THEN Emit(st, Strip(node.text), TextBlock("text", Strip(node.text)))
    ELSE IF node.name = "figure"
    THEN ParseImage(st, node)
    ELSE IF Strip(node.text) # <<>>
         THEN Emit(st, Strip(node.text), TextBlock(node.name, Strip(node.text)))
         ELSE st

\* the fallback of _parse_section, lines 280-283: the section's own text,
\* appended without consulting the cache
SectionFallback_CacheGated(text, c) ==
    IF Strip(text) # <<>> /\ Strip(text) \notin c THEN <<TextBlock("text", Strip(text))>> ELSE <<>>

SectionFallback(text, c) ==
    IF Strip(text) # <<>> THEN <<TextBlock("text", Strip(text))>> ELSE <<>>

-----------------------------------------------------------------------------
(* Tags, archiver.py 65-97, 337-345 and 495-550.                           *)

\* tag.replace("#", "")
RECURSIVE RemoveHash(_)
RemoveHash(s) ==
    IF s = <<>> THEN <<>>
    ELSE IF Head(s) = "#" THEN RemoveHash(Tail(s)) ELSE <<Head(s)>> \o RemoveHash(Tail(s))

LongerThanOne(t) == StrLen(t) > 1

\* [tag.replace("#", "") for tag in tags if len(tag) > 1]
TagHygiene(tags) ==
    LET kept == SelectSeq(tags, LongerThanOne) IN [i \in 1..Len(kept) |-> RemoveHash(kept[i])]

\* what self.model.inference does on a tagging request: it raises (all
\* attempts failed), or returns a text that json.loads rejects, or a JSON
\* object whose "tags" are the given list
TagReply(r, p, t) == [raises |-> r, parsable |-> p, tags |-> t]
NoReply == [raises |-> FALSE, parsable |-> FALSE, tags |-> <<"<not asked>">>]
TagReplies ==
    {TagReply(TRUE, FALSE, <<>>), TagReply(FALSE, FALSE, <<>>),
     TagReply(FALSE, TRUE, <<<<"#", "L">>, <<"x">>>>)}

\* the try block of _auto_tagging / _parse_tags, lines 89-97
TagsOfReply(reply) == IF reply.parsable THEN reply.tags ELSE <<>>

\* explicit page tags (.article-tag__item) and author of a WeChat page
\* ("llm" is written in lower case: the token "M" is a run of 1000 characters)
PageTagLists ==
    {<<>>,
     << <<"#", "A", "I">>, <<"#">>, <<"l", "l", "m">>, <<"x">> >>,
     << <<"#", "a">> >>}
Authors == {<<>>, <<"w", "u">>}

\* WechatArticleArchiver._parse_title, lines 147-155: text of the first h1
H1Sources == {NoElement, <<SP, "t">>}
ParseTitleWechat(h1) == IF h1 = NoElement THEN Untitled ELSE Strip(h1)

-----------------------------------------------------------------------------
(* The structuring service and WebPageArchiver._parse_segment, 400-459.    *)

BatchSize == 20

\* a reply of self.model.inference to a structuring request:
\*   raises   every attempt failed, inference raised
\*   json     "invalid" (json.loads raises), "array" (valid JSON, not an object)
\*            or "object"
\*   content  of an object: "absent" (no "content" key), "scalar" (null or a
\*            number), "string", or "list"
\*   items    the items of a "list" content
Reply(r, j, c, i) == [raises |-> r, json |-> j, content |-> c, items |-> i]

NonDictItem == Block(NotADict, NoField, NoField)

ServiceBlockLists ==
    {<<>>, <<TextBlock("text", TxtA)>>, <<UrlBlock("image", UrlU)>>,
     <<TextBlock("text", TxtA), TextBlock("code", TxtB)>>}

WellFormedReplies == {Reply(FALSE, "object", "list", l) : l \in ServiceBlockLists}

MalformedReplies ==
    {Reply(FALSE, "invalid", "absent", <<>>),
     Reply(FALSE, "array", "absent", <<>>),
     Reply(FALSE, "object", "absent", <<>>),
     Reply(FALSE, "object", "scalar", <<>>),
     Reply(FALSE, "object", "string", <<>>),
     Reply(FALSE, "object", "list", <<NonDictItem>>)}

Replies == WellFormedReplies \cup MalformedReplies \cup {Reply(TRUE, "invalid", "absent", <<>>)}

\* the value _parse_segment returns for a reply that inference returned:
\* [kind, items] with kind "list", "string" or "scalar" (lines 453-459)
ParseSegment(reply) ==
    IF reply.json # "object" THEN [kind |-> "list", items |-> <<>>]
    ELSE IF reply.content = "absent" THEN [kind |-> "list", items |-> <<>>]
    ELSE [kind |-> reply.content, items |-> reply.items]

\* paragraphs.extend(value), line 489: [raised, items]; a string extends the
\* list by its characters, null or a number raises TypeError
ExtendWith(value) ==
    IF value.kind = "scalar" THEN [raised |-> TRUE, items |-> <<>>]
    ELSE IF value.kind = "string" THEN [raised |-> FALSE, items |-> <<NonDictItem>>]
    ELSE [raised |-> FALSE, items |-> value.items]

-----------------------------------------------------------------------------
(* The archive operation.                                                  *)

MaxUnits == 3         \* sections plus nodes walked under the content root
MaxSegments == 41     \* most unique segments of a generic page body

NoTags == <<NoField>>                \* properties has no key "tags"

\* the url argument: scheme, host, path prefix, rest
Urls == {<<"https://", "mp.weixin.qq.com", "/s/", "x">>,
         <<"http://", "mp.weixin.qq.com", "/s/", "x">>,
         <<"https://", "example.com", "/", "x">>}

\* re.match(r"^https://mp\.weixin\.qq\.com/s/.*$", url), archiver.py 25, 34
MatchWechat(u) == SubSeq(u, 1, 3) = <<"https://", "mp.weixin.qq.com", "/s/">>

Unbound == [bound |-> FALSE, title |-> NoField, type |-> "", tags |-> NoTags,
            placeholder |-> FALSE, children |-> <<>>]

NoRequest == [sent |-> FALSE, children |-> <<>>]

NoCall == [called |-> FALSE, node |-> Node("", FALSE, NoElement, NoElement, <<>>, <<>>, <<>>),
           cache |-> {}, blocks |-> <<>>, raised |-> FALSE, unit |-> 0]

Pending == [kind |-> "pending", value |-> ""]
Raised(e) == [kind |-> "raised", value |-> e]
Returned(v) == [kind |-> "returned", value |-> v]

ArchIdle ==
    /\ pc = "idle" /\ url = <<>> /\ path = "none" /\ url_exists = "unchecked"
    /\ fetches = 0 /\ service_calls = 0 /\ cache = {} /\ has_descendants = FALSE
    /\ units = 0 /\ paragraphs = <<>> /\ block_batch = <<>> /\ num_segments = 0
    /\ batch_id = 0 /\ responses = <<>> /\ article_json_obj = Unbound
    /\ archive_raised = FALSE /\ malformed_visited = FALSE /\ root_missing = FALSE
    /\ result = Pending /\ store_calls = 0 /\ stored = Unbound /\ store_reply = ""
    /\ image_outcome = "none" /\ page_request = NoRequest
    /\ page_tags = <<>> /\ page_author = <<>> /\ tag_reply = NoReply
    /\ section_start = 0 /\ section_text = NoElement
    /\ invoked = <<>> /\ block_origin = <<>> /\ last_call = NoCall /\ batch_sizes = <<>>

ArchInit ==
    /\ pc = "orchestrator" /\ url \in Urls /\ path = "none" /\ url_exists = "unchecked"
    /\ fetches = 0 /\ service_calls = 0 /\ cache = {} /\ has_descendants = FALSE
    /\ units = 0 /\ paragraphs = <<>> /\ block_batch = <<>> /\ num_segments = 0
    /\ batch_id = 0 /\ responses = <<>> /\ article_json_obj = Unbound
    /\ archive_raised = FALSE /\ malformed_visited = FALSE /\ root_missing = FALSE
    /\ result = Pending /\ store_calls = 0 /\ stored = Unbound /\ store_reply = ""
    /\ image_outcome = "none" /\ page_request = NoRequest
    /\ page_tags = <<>> /\ page_author = <<>> /\ tag_reply = NoReply
    /\ section_start = 0 /\ section_text = NoElement
    /\ invoked = <<>> /\ block_origin = <<>> /\ last_call = NoCall /\ batch_sizes = <<>>

walkVars == <<cache, has_descendants, units, malformed_visited, root_missing,
              section_start, section_text>>
batchVars == <<block_batch, num_segments, batch_id, responses>>
sinkVars == <<store_calls, stored, store_reply, image_outcome, page_request>>
tagVars == <<page_tags, page_author, tag_reply>>
histVars == <<invoked, block_origin, last_call, batch_sizes>>
otherVars == <<consVars, titleVars, opVars, utilVars, modelVars, lateVars>>

\* ArchiverOrchestrator.archive, archiver.py 31-43: the first archiver whose
\* pattern matches, else the default one
\* the archivers whose archive() one call of the orchestrator reaches: the
\* loop returns from inside its body on the first match (lines 34-38)
Dispatch_FallThrough(u) == IF MatchWechat(u) THEN <<"wechat", "web">> ELSE <<"web">>

Dispatch(u) == IF MatchWechat(u) THEN <<"wechat">> ELSE <<"web">>

OrchestratorArchive ==
    /\ pc = "orchestrator"
    /\ invoked' = Dispatch(url)
    /\ path' = Head(Dispatch(url))
    /\ pc' = "check"
    /\ UNCHANGED <<url, url_exists, fetches, service_calls, paragraphs, article_json_obj,
                   archive_raised, result, walkVars, batchVars, sinkVars, tagVars,
                   block_origin, last_call, batch_sizes, otherVars>>

\* Archiver.archive, lines 122-123: check_url_exists(url)
CheckUrl_Ignored ==
    /\ pc = "check"
    /\ \E exists \in BOOLEAN :
        /\ url_exists' = IF exists THEN "yes" ELSE "no"
        /\ pc' = "fetch"
        /\ UNCHANGED result
    /\ UNCHANGED <<url, path, fetches, service_calls, paragraphs, article_json_obj,
                   archive_raised, walkVars, batchVars, sinkVars, tagVars, histVars, otherVars>>

CheckUrl ==
    /\ pc = "check"
    /\ \E exists \in BOOLEAN :
        /\ url_exists' = IF exists THEN "yes" ELSE "no"
        /\ IF exists
           THEN pc' = "fetch" /\ UNCHANGED result
           ELSE pc' = "done" /\ result' = Raised("ValueError")
    /\ UNCHANGED <<url, path, fetches, service_calls, paragraphs, article_json_obj,
                   archive_raised, walkVars, batchVars, sinkVars, tagVars, histVars, otherVars>>

\* _archive, lines 319-322 and 528-531: fetch_url_content, BeautifulSoup and
\* the test of the element.  The fetch raises when every attempt failed; it
\* returns None when the root selector matches nothing, and then either
\* BeautifulSoup(None) raises TypeError or line 322/531 raises ValueError,
\* depending on the parser library.  All of this is outside the try block.
FetchPage ==
    /\ pc = "fetch"
    /\ fetches' = fetches + 1
    /\ \E outcome \in {"page", "Exception", "TypeError", "ValueError"} :
        IF outcome = "page"
        THEN /\ pc' = IF path = "wechat" THEN "w_content" ELSE "g_begin"
             /\ UNCHANGED <<result, archive_raised>>
        ELSE /\ pc' = "done"
             /\ result' = Raised(outcome)
             /\ archive_raised' = TRUE
    /\ UNCHANGED <<url, path, url_exists, service_calls, paragraphs, article_json_obj,
                   walkVars, batchVars, sinkVars, tagVars, histVars, otherVars>>

\* "finally: return article_json_obj", lines 353-354 and 556-557: the return
\* discards the exception in flight; reading the local while it is unbound
\* raises UnboundLocalError instead
FinallyReturn_DefaultObject(obj) == [raised |-> FALSE, error |-> ""]

FinallyReturn(obj) ==
    IF obj.bound THEN [raised |-> FALSE, error |-> ""]
    ELSE [raised |-> TRUE, error |-> "UnboundLocalError"]

\* a statement inside the try block of _archive raises: the except clause
\* raises ValueError, then the finally clause returns
RaiseInTry ==
    /\ archive_raised' = TRUE
    /\ IF FinallyReturn(article_json_obj).raised
       THEN pc' = "done" /\ result' = Raised(FinallyReturn(article_json_obj).error)
       ELSE pc' = "store" /\ UNCHANGED result

NoRaise(next) == pc' = next /\ UNCHANGED <<result, archive_raised>>

\* an image node on which lines 209 / 255 raise
MalformedNode(node) ==
    \/ node.name = "figure" /\ node.img \in {NoElement, NoField}
    \/ node.name = "p" /\ node.img = NoField /\ ~(node.centered /\ node.strong # NoElement)

\* WechatArticleArchiver._parse_content, lines 292-299: the content root
ParseContentRoot ==
    /\ pc = "w_content"
    /\ \E present \in BOOLEAN :
        /\ root_missing' = ~present
        /\ IF present THEN NoRaise("w_sections") ELSE RaiseInTry
    /\ cache' = {}
    /\ paragraphs' = <<>>
    /\ UNCHANGED <<url, path, url_exists, fetches, service_calls, has_descendants, units,
                   malformed_visited, section_start, section_text, article_json_obj,
                   batchVars, sinkVars, tagVars, histVars, otherVars>>

\* lines 302-303 and 271-273: the next direct-child <section> is entered
EnterSection ==
    /\ pc = "w_sections"
    /\ units < MaxUnits
    /\ has_descendants' = FALSE
    /\ units' = units + 1
    /\ section_start' = Len(paragraphs)
    /\ section_text' = NoElement
    /\ NoRaise("w_in_section")
    /\ UNCHANGED <<url, path, url_exists, fetches, service_calls, cache, paragraphs,
                   malformed_visited, root_missing, article_json_obj, batchVars, sinkVars,
                   tagVars, histVars, otherVars>>

\* the classifier is called on a node and its blocks are appended; an
\* exception of the classifier is re-raised by every caller up to _archive
Origins(blob, pass, unit) == [i \in 1..Len(blob) |-> [pass |-> pass, unit |-> unit]]

\* content_list.extend(blob) / content_json_obj.extend(blob)
Extend_Front(list, blob) == blob \o list

Extend(list, blob) == list \o blob

Classify(node, pass) ==
    /\ malformed_visited' = (malformed_visited \/ MalformedNode(node))
    /\ units' = units + 1
    /\ last_call' = [called |-> TRUE, node |-> node, cache |-> cache,
                     blocks |-> ParseParagraph(node, cache).blocks,
                     raised |-> ParseParagraph(node, cache).raised, unit |-> units + 1]
    /\ IF ParseParagraph(node, cache).raised
       THEN RaiseInTry /\ UNCHANGED <<cache, paragraphs, block_origin>>
       ELSE /\ cache' = ParseParagraph(node, cache).cache
            /\ paragraphs' = Extend(paragraphs, ParseParagraph(node, cache).blocks)
            /\ block_origin' = Extend(block_origin,
                                      Origins(ParseParagraph(node, cache).blocks, pass, units + 1))
            /\ NoRaise(pc)

\* lines 274-279: the next recognized descendant of the section
VisitDescendant ==
    /\ pc = "w_in_section"
    /\ units < MaxUnits
    /\ \E node \in Nodes : Classify(node, "section")
    /\ has_descendants' = TRUE
    /\ UNCHANGED <<url, path, url_exists, fetches, service_calls, root_missing,
                   section_start, section_text, article_json_obj, batchVars, sinkVars,
                   tagVars, invoked, batch_sizes, otherVars>>

\* lines 280-286: the section has no more descendants
LeaveSection ==
    /\ pc = "w_in_section"
    /\ \E text \in SectionTexts :
        IF has_descendants
        THEN UNCHANGED <<paragraphs, section_text, block_origin>>
        ELSE /\ paragraphs' = Extend(paragraphs, SectionFallback(text, cache))
             /\ block_origin' = Extend(block_origin,
                                       Origins(SectionFallback(text, cache), "fallback", units))
             /\ section_text' = text
    /\ NoRaise("w_sections")
    /\ UNCHANGED <<url, path, url_exists, fetches, service_calls, article_json_obj,
                   cache, has_descendants, units, malformed_visited, root_missing,
                   section_start, batchVars, sinkVars, tagVars, invoked, last_call,
                   batch_sizes, otherVars>>

\* line 306: no more sections, the pass over the direct children starts
EndSections ==
    /\ pc = "w_sections"
    /\ NoRaise("w_toplevel")
    /\ UNCHANGED <<url, path, url_exists, fetches, service_calls, paragraphs,
                   article_json_obj, walkVars, batchVars, sinkVars, tagVars, histVars, otherVars>>

\* lines 306-309: the next recognized direct child of the content root
VisitTopLevel ==
    /\ pc = "w_toplevel"
    /\ units < MaxUnits
    /\ \E node \in Nodes : Classify(node, "toplevel")
    /\ UNCHANGED <<url, path, url_exists, fetches, service_calls, has_descendants,
                   root_missing, section_start, section_text, article_json_obj, batchVars,
                   sinkVars, tagVars, invoked, batch_sizes, otherVars>>

\* WechatArticleArchiver._archive, lines 326-336: _parse_content has
\* returned, so its locals (the cache, the loop state) are gone and the
\* record of the walk is closed; consolidate, bind article_json_obj, set
\* url, notes, title, type and datetime
WechatConsolidate ==
    /\ pc = "w_toplevel"
    /\ cache' = {} /\ has_descendants' = FALSE /\ units' = 0
    /\ section_start' = 0 /\ section_text' = NoElement
    /\ block_origin' = <<>> /\ last_call' = NoCall
    /\ IF Consolidate(paragraphs).raised
       THEN RaiseInTry /\ UNCHANGED article_json_obj
       ELSE /\ \E h1 \in H1Sources :
                article_json_obj' =
                    [bound |-> TRUE, title |-> ParseTitleWechat(h1), type |-> "wechat",
                     tags |-> NoTags, placeholder |-> FALSE,
                     children |-> Consolidate(paragraphs).out]
            /\ NoRaise("w_tags")
    /\ UNCHANGED <<url, path, url_exists, fetches, service_calls, paragraphs,
                   malformed_visited, root_missing, batchVars, sinkVars, tagVars,
                   invoked, batch_sizes, otherVars>>

\* WechatArticleArchiver._archive, lines 337-345: page tags, author and the
\* tagging service
WechatTags ==
    /\ pc = "w_tags"
    /\ service_calls' = service_calls + 1
    /\ \E explicit \in PageTagLists, author \in Authors, reply \in TagReplies :
        /\ page_tags' = explicit
        /\ page_author' = author
        /\ tag_reply' = reply
        /\ IF reply.raises
           THEN RaiseInTry /\ UNCHANGED article_json_obj
           ELSE /\ article_json_obj' =
                       [article_json_obj EXCEPT
                           !.tags = TagHygiene(explicit \o <<author>>) \o TagsOfReply(reply)]
                /\ NoRaise("store")
    /\ UNCHANGED <<url, path, url_exists, fetches, paragraphs, walkVars, batchVars,
                   sinkVars, histVars, otherVars>>

\* WebPageArchiver._archive, lines 532-541: article_json_obj is bound before
\* the try block, with an empty dict as its children
WebBegin ==
    /\ pc = "g_begin"
    /\ \E t \in {NoElement, <<SP, "t">>}, og \in {NoElement, <<"o">>} :
        article_json_obj' =
            [bound |-> TRUE, title |-> ParseTitle(t, og, NoElement), type |-> "web",
             tags |-> NoTags, placeholder |-> TRUE, children |-> <<>>]
    /\ NoRaise("g_content")
    /\ UNCHANGED <<url, path, url_exists, fetches, service_calls, paragraphs,
                   walkVars, batchVars, sinkVars, tagVars, histVars, otherVars>>

\* WebPageArchiver._parse_content, lines 467-484: the body and its unique
\* segments; body_tag.find_all raises AttributeError when there is no body
WebSegments ==
    /\ pc = "g_content"
    /\ \E body \in BOOLEAN, n \in 0..MaxSegments :
        IF body
        THEN /\ num_segments' = n
             /\ NoRaise("g_batch")
        ELSE /\ RaiseInTry
             /\ UNCHANGED num_segments
    /\ batch_id' = 0
    /\ paragraphs' = <<>>
    /\ UNCHANGED <<url, path, url_exists, fetches, service_calls, article_json_obj,
                   block_batch, responses, walkVars, sinkVars, tagVars, histVars, otherVars>>

\* lines 485-489 and 400-452: the request for the batch starting at batch_id
\* is handed to the structuring service
\* len(unique_segments[a:b]) for a list of n segments, line 486
SliceLen_Unclipped(n, a, b) == b - a

SliceLen(n, a, b) ==
    IF a >= n THEN 0 ELSE (IF b < n THEN b ELSE n) - a

BatchRequest ==
    /\ pc = "g_batch"
    /\ batch_id < num_segments
    /\ batch_sizes' = Append(batch_sizes,
                             [first |-> batch_id,
                              len |-> SliceLen(num_segments, batch_id, batch_id + BatchSize)])
    /\ service_calls' = service_calls + 1
    /\ NoRaise("g_wait")
    /\ UNCHANGED <<url, path, url_exists, fetches, paragraphs, article_json_obj,
                   walkVars, batchVars, sinkVars, tagVars, invoked, block_origin, last_call,
                   otherVars>>

\* lines 450-459 and 489: the service answers, the reply is parsed and the
\* list is extended
AppendBatch_Prepend(items) ==
    /\ paragraphs' = items \o paragraphs
    /\ block_batch' = [i \in 1..Len(items) |-> batch_id] \o block_batch

AppendBatch(items) ==
    /\ paragraphs' = paragraphs \o items
    /\ block_batch' = block_batch \o [i \in 1..Len(items) |-> batch_id]

BatchResponse ==
    /\ pc = "g_wait"
    /\ \E reply \in Replies :
        /\ responses' = Append(responses, reply)
        /\ IF reply.raises \/ ExtendWith(ParseSegment(reply)).raised
           THEN RaiseInTry /\ UNCHANGED <<paragraphs, block_batch, batch_id>>
           ELSE /\ AppendBatch(ExtendWith(ParseSegment(reply)).items)
                /\ batch_id' = batch_id + BatchSize
                /\ NoRaise("g_batch")
    /\ UNCHANGED <<url, path, url_exists, fetches, service_calls, article_json_obj,
                   num_segments, walkVars, sinkVars, tagVars, histVars, otherVars>>

\* lines 491-493 and 542-543: the loop is over, the list is consolidated and
\* becomes the children
WebConsolidate ==
    /\ pc = "g_batch"
    /\ batch_id >= num_segments
    /\ IF Consolidate(paragraphs).raised
       THEN RaiseInTry /\ UNCHANGED article_json_obj
       ELSE /\ article_json_obj' =
                    [article_json_obj EXCEPT !.placeholder = FALSE,
                                             !.children = Consolidate(paragraphs).out]
            /\ NoRaise("g_tags")
    /\ UNCHANGED <<url, path, url_exists, fetches, service_calls, paragraphs,
                   walkVars, batchVars, sinkVars, tagVars, histVars, otherVars>>

\* WebPageArchiver._parse_tags, lines 495-520: "await self.model.inference(..)"
\* awaits the str that the plain function inference returned, which raises
\* TypeError; when inference itself raises, that exception leaves line 511
ParseTagsWeb(reply) == [raised |-> TRUE, tags |-> <<>>]

\* WebPageArchiver._archive, lines 545-550
WebTags ==
    /\ pc = "g_tags"
    /\ service_calls' = service_calls + 1
    /\ \E reply \in TagReplies :
        /\ tag_reply' = reply
        /\ IF ParseTagsWeb(reply).raised
           THEN RaiseInTry /\ UNCHANGED article_json_obj
           ELSE /\ article_json_obj' =
                       [article_json_obj EXCEPT
                           !.tags = TagHygiene(ParseTagsWeb(reply).tags)
                                    \o TagHygiene(TagHygiene(ParseTagsWeb(reply).tags))]
                /\ NoRaise("store")
    /\ UNCHANGED <<url, path, url_exists, fetches, paragraphs, walkVars, batchVars,
                   sinkVars, page_tags, page_author, histVars, otherVars>>

\* save_image_to_imgur as notion_utils.py sees it: "from
\* wenling.common.image_upload import *" binds the function of
\* image_upload.py 125-154, whose parameters are image_url and logger
SaveImageParams == {"image_url", "logger"}

\* the keyword arguments of the call at notion_utils.py 97
SaveImageCallArgs == {"image_url", "logger", "verbose"}

\* how the image host behaves: the download of the image fails
\* (raise_for_status), IMGUR_CLIENT_ID is not set, the upload fails, or the
\* upload answers with a link
ImageOutcomes == {"download_failed", "no_client_id", "upload_failed", "uploaded"}

ImgurLink == <<"i">>

\* await save_image_to_imgur(**kwargs): [raised, error, url].  A call whose
\* keywords the function does not accept raises TypeError on each attempt
\* of the retrying wrapper; an exception of the body leaves the coroutine
\* when it is awaited; a failed upload returns "" (image_upload.py 115-120)
SaveImageToImgur(kwargs, outcome) ==
    IF ~(kwargs \subseteq SaveImageParams)
    THEN [raised |-> TRUE, error |-> "TypeError", url |-> <<>>]
    ELSE IF outcome = "download_failed"
    THEN [raised |-> TRUE, error |-> "HTTPError", url |-> <<>>]
    ELSE IF outcome = "no_client_id"
    THEN [raised |-> TRUE, error |-> "ValueError", url |-> <<>>]
    ELSE IF outcome = "upload_failed"
    THEN [raised |-> FALSE, error |-> "", url |-> <<>>]
    ELSE [raised |-> FALSE, error |-> "", url |-> ImgurLink]

NotionBlock(t, c) == [type |-> t, content |-> c]

\* one iteration of the loop of NotionStorage._create_page_blocks,
\* notion_utils.py 68-129, on st = [raised, error, out]
CreatePageBlock(st, block, outcome) ==
    IF st.raised THEN st
    ELSE IF block.type \in {"h1", "heading_1", "h2", "heading_2", "h3", "heading_3",
                            "text", "span", "numbered_list_item"}
    THEN IF block.text = NoField
         THEN [st EXCEPT !.raised = TRUE, !.error = "KeyError"]
         ELSE [st EXCEPT !.out = Append(@,
                  NotionBlock(CASE block.type \in {"h1", "heading_1"} -> "heading_1"
                                [] block.type \in {"h2", "heading_2"} -> "heading_2"
                                [] block.type \in {"h3", "heading_3"} -> "heading_3"
                                [] block.type \in {"text", "span"} -> "paragraph"
                                [] OTHER -> "numbered_list_item",
                              block.text))]
    ELSE IF block.type \in {"image", "img"}
    THEN IF block.url = NoField
         THEN [st EXCEPT !.raised = TRUE, !.error = "KeyError"]
         ELSE IF SaveImageToImgur(SaveImageCallArgs, outcome).raised
              THEN [st EXCEPT !.raised = TRUE,
                              !.error = SaveImageToImgur(SaveImageCallArgs, outcome).error]
              ELSE [st EXCEPT !.out = Append(@,
                       NotionBlock("embed", SaveImageToImgur(SaveImageCallArgs, outcome).url))]
    ELSE st

\* one iteration on an empty list: the iteration reads the list so far
\* only to append to it
NoPageBlocks == [raised |-> FALSE, error |-> "", out |-> <<>>]

IterationOn(block, outcome) == CreatePageBlock(NoPageBlocks, block, outcome)

\* the index of the first block on which the loop raises, 0 when none
FirstRaising(blocks, outcome) ==
    IF \E i \in 1..Len(blocks) : IterationOn(blocks[i], outcome).raised
    THEN CHOOSE i \in 1..Len(blocks) :
             /\ IterationOn(blocks[i], outcome).raised
             /\ \A j \in 1..(i - 1) : ~IterationOn(blocks[j], outcome).raised
    ELSE 0

\* the blocks the loop gets through
Iterated(blocks, outcome) ==
    IF FirstRaising(blocks, outcome) = 0 THEN blocks
    ELSE SubSeq(blocks, 1, FirstRaising(blocks, outcome) - 1)

\* those of them for which the iteration appends
Appending(blocks, outcome) ==
    SelectSeq(Iterated(blocks, outcome), LAMBDA b : IterationOn(b, outcome).out # <<>>)

\* _create_page_blocks(blocks): [raised, error, out]
CreatePageBlocks(blocks, outcome) ==
    [raised |-> FirstRaising(blocks, outcome) # 0,
     error |-> IF FirstRaising(blocks, outcome) # 0
               THEN IterationOn(blocks[FirstRaising(blocks, outcome)], outcome).error
               ELSE "",
     out |-> LET appending == Appending(blocks, outcome)
             IN [k \in 1..Len(appending) |-> IterationOn(appending[k], outcome).out[1]]]

MaxPageChildren == 100

\* children[:100], notion_utils.py 161
FirstChildren_All(children) == children

FirstChildren(children) == SubSeq(children, 1, IF Len(children) < MaxPageChildren
                                               THEN Len(children) ELSE MaxPageChildren)

HasImage(blocks) == \E i \in 1..Len(blocks) : blocks[i].type \in {"image", "img"}

\* Archiver.archive, line 125, and NotionStorage.store, notion_utils.py
\* 132-180: the blocks are converted, each image being handed to the image
\* host, then the page is created; the sink answers with the id of the
\* created page or raises
StoreReplies == {"page-1", "page-2", "APIResponseError"}

Store ==
    /\ pc = "store"
    /\ store_calls' = store_calls + 1
    /\ stored' = article_json_obj
    /\ \E outcome \in ImageOutcomes, reply \in StoreReplies :
        /\ image_outcome' = IF HasImage(article_json_obj.children) THEN outcome ELSE "none"
        /\ IF CreatePageBlocks(article_json_obj.children, outcome).raised
           THEN /\ store_reply' = CreatePageBlocks(article_json_obj.children, outcome).error
                /\ result' = Raised(CreatePageBlocks(article_json_obj.children, outcome).error)
                /\ page_request' = NoRequest
           ELSE /\ store_reply' = reply
                /\ result' = IF reply = "APIResponseError" THEN Raised(reply)
                             ELSE Returned(reply)
                /\ page_request' =
                       [sent |-> TRUE,
                        children |-> FirstChildren(
                            CreatePageBlocks(article_json_obj.children, outcome).out)]
    /\ pc' = "done"
    /\ UNCHANGED <<url, path, url_exists, fetches, service_calls, paragraphs,
                   article_json_obj, archive_raised, walkVars, batchVars, tagVars, histVars, otherVars>>

-----------------------------------------------------------------------------
(* Two archive operations on the same WechatArticleArchiver instance.      *)
(* ArchiverOrchestrator keeps one archiver per pattern (lines 22-29), so   *)
(* two archive(url) calls for WeChat urls run on one instance.  A          *)
(* coroutine runs without interruption between two suspension points, and  *)
(* check_url_exists, fetch_url_content and _parse_content are plain calls: *)
(* an operation runs from its start to the end of its walk in one piece    *)
(* and is suspended, if at all, later, in _archive or in store.            *)

MaxOpNodes == 2       \* most nodes one operation's walker meets

Ops == {1, 2}

\* the nodes of the two pages
WalkNodes == {n \in Nodes : n.name \in {"blockquote", "figure"}}

\* "cache: Dict[str, Any] = {}", line 299: a new local dict for each call of
\* _parse_content; instance stands for what the instance has seen so far
NewCache_Shared(instance) == instance

NewCache(instance) == {}

OpsIdle ==
    /\ running = 0
    /\ op_pc = [o \in Ops |-> "idle"]
    /\ op_cache = [o \in Ops |-> {}]
    /\ op_blocks = [o \in Ops |-> <<>>]
    /\ op_nodes = [o \in Ops |-> <<>>]
    /\ recorded = {}

OpsInit ==
    /\ running = 0
    /\ op_pc = [o \in Ops |-> "start"]
    /\ op_cache = [o \in Ops |-> {}]
    /\ op_blocks = [o \in Ops |-> <<>>]
    /\ op_nodes = [o \in Ops |-> <<>>]
    /\ recorded = {}

\* archive(url) is called and runs up to line 299 of _parse_content
OpBegin(o) ==
    /\ running = 0
    /\ op_pc[o] = "start"
    /\ running' = o
    /\ op_pc' = [op_pc EXCEPT ![o] = "walk"]
    /\ op_cache' = [op_cache EXCEPT ![o] = NewCache(recorded)]
    /\ UNCHANGED <<op_blocks, op_nodes, recorded, consVars, titleVars,
                   archVars, utilVars, modelVars, lateVars>>

\* lines 302-309: the walker hands the next node to the classifier; an
\* exception ends the operation (C7)
OpVisit(o) ==
    /\ running = o
    /\ op_pc[o] = "walk"
    /\ Len(op_nodes[o]) < MaxOpNodes
    /\ \E node \in WalkNodes :
        /\ op_nodes' = [op_nodes EXCEPT ![o] = Append(@, node)]
        /\ IF ParseParagraph(node, op_cache[o]).raised
           THEN /\ op_pc' = [op_pc EXCEPT ![o] = "failed"]
                /\ running' = 0
                /\ UNCHANGED <<op_cache, op_blocks, recorded>>
           ELSE /\ op_cache' = [op_cache EXCEPT ![o] = ParseParagraph(node, @).cache]
                /\ op_blocks' = [op_blocks EXCEPT
                                    ![o] = @ \o ParseParagraph(node, op_cache[o]).blocks]
                /\ recorded' = recorded \cup ParseParagraph(node, op_cache[o]).cache
                /\ UNCHANGED <<op_pc, running>>
    /\ UNCHANGED <<consVars, titleVars,
                   archVars, utilVars, modelVars, lateVars>>

\* line 313: _parse_content returns; the operation goes on to an await at
\* which it is suspended (notion_store.store, line 125)
OpSuspend(o) ==
    /\ running = o
    /\ op_pc[o] = "walk"
    /\ op_pc' = [op_pc EXCEPT ![o] = "suspended"]
    /\ running' = 0
    /\ UNCHANGED <<op_cache, op_blocks, op_nodes, recorded, consVars, titleVars,
                   archVars, utilVars, modelVars, lateVars>>

\* the awaited call answers and the operation runs to its end
OpResume(o) ==
    /\ running = 0
    /\ op_pc[o] = "suspended"
    /\ op_pc' = [op_pc EXCEPT ![o] = "done"]
    /\ UNCHANGED <<running, op_cache, op_blocks, op_nodes, recorded, consVars, titleVars,
                   archVars, utilVars, modelVars, lateVars>>

-----------------------------------------------------------------------------
(* check_url_exists and fetch_url_content, common/utils.py 42-76.          *)

\* what a requests.* call gives: it raises a RequestException, or returns a
\* response with a status code whose text is a page
HttpAnswer(r, st, pg) == [raises |-> r, status |-> st, page |-> pg]

\* a page is the list of its elements in document order: [name, html], html
\* being str(element)
Element(n, h) == [name |-> n, html |-> h]
Pages == {<<Element("div", <<"1">>), Element("div", <<"2">>)>>, <<Element("body", <<"3">>)>>}
Selectors == {"div", "section"}

\* soup.select_one(css_selector): the first matching element, NoElement for None
SelectOne(page, selector) ==
    IF SelectSeq(page, LAMBDA e : e.name = selector) = <<>> THEN NoElement
    ELSE Head(SelectSeq(page, LAMBDA e : e.name = selector)).html

\* how a server answers a HEAD or a GET of the url
SiteAnswers ==
    {HttpAnswer(FALSE, 200, <<>>), HttpAnswer(FALSE, 404, <<>>), HttpAnswer(FALSE, 405, <<>>),
     HttpAnswer(TRUE, 0, <<>>)}

\* what one requests.get of fetch_url_content gives
FetchAnswers ==
    {HttpAnswer(FALSE, 200, pg) : pg \in Pages}
    \cup {HttpAnswer(FALSE, 404, <<>>), HttpAnswer(FALSE, 500, <<>>), HttpAnswer(TRUE, 0, <<>>)}

FetchMaxAttempts == 3

UtilsIdle ==
    /\ site = [url |-> <<>>, get |-> HttpAnswer(TRUE, 0, <<>>), head |-> HttpAnswer(TRUE, 0, <<>>)]
    /\ upc = "idle" /\ http_calls = <<>> /\ url_result = Pending
    /\ css_selector = "" /\ fpc = "idle" /\ fetch_requests = 0 /\ fetch_seen = <<>>
    /\ fetch_result = Pending

UtilsInit ==
    /\ site \in [url : Urls, get : SiteAnswers, head : SiteAnswers]
    /\ upc = "call" /\ http_calls = <<>> /\ url_result = Pending
    /\ css_selector \in Selectors /\ fpc = "call" /\ fetch_requests = 0 /\ fetch_seen = <<>>
    /\ fetch_result = Pending

\* check_url_exists(url), lines 42-47
CheckUrlExists ==
    /\ upc = "call"
    /\ http_calls' = Append(http_calls, [method |-> "head", url |-> site.url])
    /\ url_result' = IF site.head.raises THEN Returned(FALSE)
                     ELSE Returned(site.head.status = 200)
    /\ upc' = "done"
    /\ UNCHANGED <<site, css_selector, fpc, fetch_requests, fetch_seen, fetch_result,
                   consVars, titleVars, archVars, opVars, modelVars, lateVars>>

\* the body of fetch_url_content on what its requests.get gave, lines
\* 65-76: [raised, value], value being the error or the returned value
FetchOnce_RaiseOnNoMatch(answer, selector) ==
    IF answer.raises THEN [raised |-> TRUE, value |-> <<"RequestException">>]
    ELSE IF answer.status = 200 /\ SelectOne(answer.page, selector) # NoElement
         THEN [raised |-> FALSE, value |-> SelectOne(answer.page, selector)]
         ELSE [raised |-> TRUE, value |-> <<"Failed to fetch content">>]

FetchOnce(answer, selector) ==
    IF answer.raises THEN [raised |-> TRUE, value |-> <<"RequestException">>]
    ELSE IF answer.status = 200
         THEN [raised |-> FALSE, value |-> SelectOne(answer.page, selector)]
         ELSE [raised |-> TRUE, value |-> <<"Failed to fetch content">>]

\* one attempt of the retrying wrapper (line 50): the call is made; when it
\* raises and fewer than stop_max_attempt_number attempts were made, the
\* wrapper waits and tries again, else the exception is raised to the caller
FetchAttempt ==
    /\ fpc = "call"
    /\ \E answer \in FetchAnswers :
        /\ fetch_requests' = fetch_requests + 1
        /\ fetch_seen' = Append(fetch_seen, answer)
        /\ IF ~FetchOnce(answer, css_selector).raised
           THEN /\ fetch_result' = Returned(FetchOnce(answer, css_selector).value)
                /\ fpc' = "done"
           ELSE IF fetch_requests + 1 >= FetchMaxAttempts
                THEN /\ fetch_result' = Raised(FetchOnce(answer, css_selector).value)
                     /\ fpc' = "done"
                ELSE UNCHANGED <<fetch_result, fpc>>
    /\ UNCHANGED <<site, upc, http_calls, url_result, css_selector,
                   consVars, titleVars, archVars, opVars, modelVars, lateVars>>

-----------------------------------------------------------------------------
(* OpenAIChatModel.inference, common/model_utils.py 42-84.                 *)

\* what self.client.chat.completions.create gives: it raises (failed), or
\* returns a completion with a list of choices; a choice has a message or
\* none, a message has a content, NoElement for None
Message(p, c) == [present |-> p, content |-> c]
Completion(f, ch) == [failed |-> f, choices |-> ch]

Completions ==
    {Completion(TRUE, <<>>),
     Completion(FALSE, <<>>),
     Completion(FALSE, <<Message(FALSE, NoElement)>>),
     Completion(FALSE, <<Message(TRUE, NoElement)>>),
     Completion(FALSE, <<Message(TRUE, <<>>)>>),
     Completion(FALSE, <<Message(TRUE, <<>>), Message(TRUE, <<"y", "o">>)>>),
     Completion(FALSE, <<Message(TRUE, <<"h", "i">>)>>),
     Completion(FALSE, <<Message(TRUE, <<"h", "i">>), Message(TRUE, <<"y", "o">>)>>)}

InferenceMaxAttempts == 3

\* the body of inference on what the client call gave, lines 55-84
InferenceOnce_NoContentCheck(c) ==
    IF c.failed \/ c.choices = <<>>
    THEN [raised |-> TRUE, value |-> <<"Failed to parse choices">>]
    ELSE IF ~c.choices[1].present
    THEN [raised |-> TRUE, value |-> <<"Failed to parse message">>]
    ELSE [raised |-> FALSE, value |-> c.choices[1].content]

InferenceOnce(c) ==
    IF c.failed \/ c.choices = <<>>
    THEN [raised |-> TRUE, value |-> <<"Failed to parse choices">>]
    ELSE IF ~c.choices[1].present
    THEN [raised |-> TRUE, value |-> <<"Failed to parse message">>]
    ELSE IF c.choices[1].content \in {NoElement, <<>>}
    THEN [raised |-> TRUE, value |-> <<"Failed to parse content">>]
    ELSE [raised |-> FALSE, value |-> c.choices[1].content]

ModelIdle == ipc = "idle" /\ inf_attempts = 0 /\ inf_seen = <<>> /\ inf_result = Pending

ModelInit == ipc = "call" /\ inf_attempts = 0 /\ inf_seen = <<>> /\ inf_result = Pending

\* one attempt of the retrying wrapper (line 42)
InferenceAttempt ==
    /\ ipc = "call"
    /\ \E c \in Completions :
        /\ inf_attempts' = inf_attempts + 1
        /\ inf_seen' = Append(inf_seen, c)
        /\ IF ~InferenceOnce(c).raised
           THEN /\ inf_result' = Returned(InferenceOnce(c).value)
                /\ ipc' = "done"
           ELSE IF inf_attempts + 1 >= InferenceMaxAttempts
                THEN /\ inf_result' = Raised(InferenceOnce(c).value)
                     /\ ipc' = "done"
                ELSE UNCHANGED <<inf_result, ipc>>
    /\ UNCHANGED <<consVars, titleVars, archVars, opVars, utilVars, lateVars>>

-----------------------------------------------------------------------------
(* WechatArticleArchiver._parse_author, _parse_publish_time and            *)
(* _parse_tags, archiver.py 157-191.                                       *)

earlyVars == <<consVars, titleVars, archVars, opVars, utilVars, modelVars>>

AuthorElements == {NoElement, <<SP, "w", "u">>, <<SP>>}
TimeElements == {NoElement, <<"d", SP>>, <<>>}
TagElementLists == {<<>>, << <<"#", "A", SP>> >>, << <<SP>>, <<"b">> >>}

\* _parse_author, lines 157-168: [raised, value]
ParseAuthor(element) ==
    IF element = NoElement THEN [raised |-> FALSE, value |-> <<>>]
    ELSE [raised |-> FALSE, value |-> Strip(element)]

\* _parse_publish_time, lines 170-178: [raised, value], value being the
\* text of the h2 block returned
ParsePublishTime(element) ==
    IF element = NoElement THEN [raised |-> TRUE, value |-> <<>>]
    ELSE [raised |-> FALSE, value |-> Strip(element)]

\* WechatArticleArchiver._parse_tags, lines 180-191: [raised, value]
ParseTagsWechat(elements) ==
    IF elements = <<>> THEN [raised |-> FALSE, value |-> <<>>]
    ELSE [raised |-> FALSE, value |-> [i \in 1..Len(elements) |-> Strip(elements[i])]]

\* the outcome of a call: "pending", "returned" or "raised", with its value
Outcome(r) == [kind |-> IF r.raised THEN "raised" ELSE "returned", value |-> r.value]
NotCalled == [kind |-> "pending", value |-> <<>>]

MetaIdle ==
    /\ author_element = NoElement /\ time_element = NoElement /\ tag_elements = <<>>
    /\ author_out = NotCalled /\ time_out = NotCalled /\ tags_out = NotCalled

MetaInit ==
    /\ author_element \in AuthorElements
    /\ time_element \in TimeElements
    /\ tag_elements \in TagElementLists
    /\ author_out = NotCalled /\ time_out = NotCalled /\ tags_out = NotCalled

CallParseAuthor ==
    /\ author_out.kind = "pending"
    /\ author_out' = Outcome(ParseAuthor(author_element))
    /\ UNCHANGED <<author_element, time_element, tag_elements, time_out, tags_out, earlyVars, segVars, dbVars>>

CallParsePublishTime ==
    /\ time_out.kind = "pending"
    /\ time_out' = Outcome(ParsePublishTime(time_element))
    /\ UNCHANGED <<author_element, time_element, tag_elements, author_out, tags_out, earlyVars, segVars, dbVars>>

CallParseTags ==
    /\ tags_out.kind = "pending"
    /\ tags_out' = Outcome(ParseTagsWechat(tag_elements))
    /\ UNCHANGED <<author_element, time_element, tag_elements, author_out, time_out, earlyVars, segVars, dbVars>>

-----------------------------------------------------------------------------
(* The nested-segment filter, archiver.py 467-482.                         *)
(* The nodes under body are numbered in document order; node 0 is body.    *)

MaxTreeNodes == 4     \* most nodes under body

\* segments_to_include, line 470
SegmentsToInclude == {"p", "div", "h1", "h2", "img", "pre"}

TagNames == {"div", "p", "span"}

RECURSIVE AncestorsOrSelf(_, _)
AncestorsOrSelf(par, i) == IF i = 0 THEN {0} ELSE {i} \cup AncestorsOrSelf(par, par[i])

\* segment.parents, up to body (html and the document above it have no
\* name of segments_to_include)
Parents(par, i) == AncestorsOrSelf(par, par[i])

\* the parent maps of the trees whose nodes are numbered in document order
DocumentOrders(n) ==
    {par \in [1..n -> 0..(n - 1)] :
        /\ \A i \in 1..n : par[i] < i
        /\ \A i \in 2..n : par[i] \in AncestorsOrSelf(par, i - 1)}

Bodies ==
    UNION {{[names |-> nm, parent |-> par] : nm \in [1..n -> TagNames], par \in DocumentOrders(n)} :
           n \in 0..MaxTreeNodes}

Children(par, i) == SelectSeq([k \in 1..Len(par) |-> k], LAMBDA k : par[k] = i)

\* Tag.__eq__ compares name, attributes and contents, not identity; of a
\* node the model keeps the name and the children
RECURSIVE Shape(_, _, _)
Shape(names, par, i) ==
    <<IF i = 0 THEN "body" ELSE names[i],
      [k \in 1..Len(Children(par, i)) |-> Shape(names, par, Children(par, i)[k])]>>

TagEq(names, par, a, b) == Shape(names, par, a) = Shape(names, par, b)

\* body_tag.find_all(segments_to_include), line 472
FindAll(names) == SelectSeq([k \in 1..Len(names) |-> k], LAMBDA k : names[k] \in SegmentsToInclude)

\* "parent in segment.parents", line 478
InParents_DirectOnly(names, par, parent, segment) ==
    par[segment] # 0 /\ TagEq(names, par, par[segment], parent)

InParents(names, par, parent, segment) ==
    \E a \in Parents(par, segment) : TagEq(names, par, a, parent)

\* lines 475-479
UniqueSegments(names, par) ==
    SelectSeq(FindAll(names),
              LAMBDA segment :
                  ~\E k \in 1..Len(FindAll(names)) :
                       InParents(names, par, FindAll(names)[k], segment))

SegIdle == seg_names = <<>> /\ seg_parent = <<>> /\ unique_segments = <<>> /\ spc = "idle"

SegInit ==
    /\ \E body \in Bodies : seg_names = body.names /\ seg_parent = body.parent
    /\ unique_segments = <<>>
    /\ spc = "call"

CallUniqueSegments ==
    /\ spc = "call"
    /\ unique_segments' = UniqueSegments(seg_names, seg_parent)
    /\ spc' = "done"
    /\ UNCHANGED <<seg_names, seg_parent, earlyVars, metaVars, dbVars>>

-----------------------------------------------------------------------------
(* NotionStorage._add_to_database, notion_utils.py 132-168, on its own.    *)

MaxPrefix == 2        \* blocks of mixed kinds at the head of the list
MaxFill == 101        \* text blocks after them

DbHeadBlocks ==
    {TextBlock(t, TxtA) : t \in {"h1", "span", "quote", "code"}}
    \cup {UrlBlock(t, UrlU) : t \in {"image", "video"}}

FillCounts == {0} \cup {n \in 0..MaxFill : n + 3 >= MaxFill}

DbInputs ==
    {head \o [k \in 1..n |-> TextBlock("text", TxtB)] :
        head \in UNION {[1..k -> DbHeadBlocks] : k \in 0..MaxPrefix}, n \in FillCounts}

DbIdle == db_blocks = <<>> /\ db_request = NoRequest /\ db_error = "" /\ dpc = "idle"

DbInit ==
    /\ db_blocks \in DbInputs
    /\ db_request = NoRequest
    /\ db_error = ""
    /\ dpc = "call"

\* lines 155-162: the blocks are converted and the first 100 of them are
\* handed to pages.create
CallAddToDatabase ==
    /\ dpc = "call"
    /\ \E outcome \in ImageOutcomes :
        IF CreatePageBlocks(db_blocks, outcome).raised
        THEN /\ db_request' = NoRequest
             /\ db_error' = CreatePageBlocks(db_blocks, outcome).error
        ELSE /\ db_request' = [sent |-> TRUE,
                               children |-> FirstChildren(CreatePageBlocks(db_blocks, outcome).out)]
             /\ db_error' = ""
    /\ dpc' = "done"
    /\ UNCHANGED <<db_blocks, earlyVars, metaVars, segVars>>

LateIdle == MetaIdle /\ SegIdle /\ DbIdle

ConsIdle == /\ content = <<>> /\ consolidated = [raised |-> FALSE, out |-> <<>>]
            /\ consolidated_again = [raised |-> FALSE, out |-> <<>>]
            /\ content_after = <<>> /\ cpc = "idle"
TitleIdle == head_title = NoElement /\ og_title = NoElement /\ twitter_title = NoElement
             /\ title = <<>> /\ tpc = "idle"

Init == ArchInit /\ ConsIdle /\ TitleIdle /\ OpsIdle /\ UtilsIdle /\ ModelIdle /\ LateIdle

Next ==
    \/ OrchestratorArchive
    \/ CheckUrl
    \/ FetchPage
    \/ ParseContentRoot
    \/ EnterSection
    \/ VisitDescendant
    \/ LeaveSection
    \/ EndSections
    \/ VisitTopLevel
    \/ WechatConsolidate
    \/ WechatTags
    \/ WebBegin
    \/ WebSegments
    \/ BatchRequest
    \/ BatchResponse
    \/ WebConsolidate
    \/ WebTags
    \/ Store

\* one archive operation, from the orchestrator to the document sink
Spec == Init /\ [][Next]_vars

-----------------------------------------------------------------------------
(* Specifications.                                                         *)

\* _consolidate_content on every bounded block list
SpecConsolidateInit ==
    ConsInit /\ TitleIdle /\ ArchIdle /\ OpsIdle /\ UtilsIdle /\ ModelIdle /\ LateIdle
SpecConsolidateNext == CallConsolidate \/ CallConsolidateAgain
SpecConsolidate == SpecConsolidateInit /\ [][SpecConsolidateNext]_vars

\* _parse_title on every bounded page head
SpecTitleInit == TitleInit /\ ConsIdle /\ ArchIdle /\ OpsIdle /\ UtilsIdle /\ ModelIdle /\ LateIdle
SpecTitleNext == CallParseTitle
SpecTitle == SpecTitleInit /\ [][SpecTitleNext]_vars

\* two archive operations on one archiver instance
SpecOpsInit == OpsInit /\ ConsIdle /\ TitleIdle /\ ArchIdle /\ UtilsIdle /\ ModelIdle /\ LateIdle
SpecOpsNext == \E o \in Ops : OpBegin(o) \/ OpVisit(o) \/ OpSuspend(o) \/ OpResume(o)
SpecOps == SpecOpsInit /\ [][SpecOpsNext]_vars

\* one call of check_url_exists and one of fetch_url_content
SpecUtilsInit == UtilsInit /\ ConsIdle /\ TitleIdle /\ ArchIdle /\ OpsIdle /\ ModelIdle /\ LateIdle
SpecUtilsNext == CheckUrlExists \/ FetchAttempt
SpecUtils == SpecUtilsInit /\ [][SpecUtilsNext]_vars

\* one call of OpenAIChatModel.inference
SpecModelInit == ModelInit /\ ConsIdle /\ TitleIdle /\ ArchIdle /\ OpsIdle /\ UtilsIdle /\ LateIdle
SpecModelNext == InferenceAttempt
SpecModel == SpecModelInit /\ [][SpecModelNext]_vars

\* the three page-metadata extractors of the WeChat archiver on one page
EarlyIdle == ConsIdle /\ TitleIdle /\ ArchIdle /\ OpsIdle /\ UtilsIdle /\ ModelIdle
SpecMetaInit == MetaInit /\ EarlyIdle /\ SegIdle /\ DbIdle
SpecMetaNext == CallParseAuthor \/ CallParsePublishTime \/ CallParseTags
SpecMeta == SpecMetaInit /\ [][SpecMetaNext]_vars

\* the nested-segment filter on every bounded body
SpecSegmentsInit == SegInit /\ EarlyIdle /\ MetaIdle /\ DbIdle
SpecSegmentsNext == CallUniqueSegments
SpecSegments == SpecSegmentsInit /\ [][SpecSegmentsNext]_vars

\* _add_to_database on block lists around the cap of 100
SpecDatabaseInit == DbInit /\ EarlyIdle /\ MetaIdle /\ SegIdle
SpecDatabaseNext == CallAddToDatabase
SpecDatabase == SpecDatabaseInit /\ [][SpecDatabaseNext]_vars

-----------------------------------------------------------------------------
(* Claims about _consolidate_content, under SpecConsolidate.               *)

\* text of the run lo..hi of blocks, joined by newlines
RECURSIVE JoinTexts(_, _, _)
JoinTexts(blocks, lo, hi) ==
    IF lo = hi THEN blocks[lo].text
    ELSE blocks[lo].text \o <<NL>> \o JoinTexts(blocks, lo + 1, hi)

\* the block that stands for the run lo..hi
MergedRun(blocks, lo, hi) ==
    IF lo = hi THEN blocks[lo]
    ELSE TextBlock(blocks[lo].type, JoinTexts(blocks, lo, hi))

RunLo(ends, k) == IF k = 1 THEN 1 ELSE ends[k - 1] + 1

\* ends[k] is the last input index of the run behind out[k]: the runs are
\* consecutive, cover the input, a run of several blocks is of one kind,
\* text or code, and out[k] is the merged run
ExplainsOutput(inp, out, ends) ==
    /\ (Len(out) = 0) = (Len(inp) = 0)
    /\ Len(out) > 0 => ends[Len(out)] = Len(inp)
    /\ \A k \in 1..Len(out) :
        /\ RunLo(ends, k) <= ends[k]
        /\ \A i \in RunLo(ends, k)..ends[k] :
             i > RunLo(ends, k) =>
                /\ inp[i].type = inp[RunLo(ends, k)].type
                /\ inp[i].type \in {"text", "code"}
        /\ out[k] = MergedRun(inp, RunLo(ends, k), ends[k])

RunPartitions(inp, out) ==
    {ends \in [1..Len(out) -> 1..Len(inp)] : ExplainsOutput(inp, out, ends)}

\* C2: every block that results from merging two or more adjacent text or
\* code blocks has fewer than 2000 characters, separators included.
C2_MergedUnderCap ==
    cpc = "done" =>
        \A ends \in RunPartitions(content, consolidated.out) :
            \A k \in 1..Len(consolidated.out) :
                RunLo(ends, k) < ends[k] => StrLen(consolidated.out[k].text) < MaxTextLen

\* C3: consolidation is lossless: the output blocks are, in order, the
\* newline-joined runs of a partition of the input into runs of consecutive
\* blocks, a run of several blocks being of one kind.
C3_Lossless ==
    cpc = "done" =>
        /\ ~consolidated.raised
        /\ RunPartitions(content, consolidated.out) # {}

\* a list of three blocks of which the first two were merged
C3_Witness ==
    /\ cpc = "done"
    /\ Len(content) = 3
    /\ Len(consolidated.out) = 2
    /\ consolidated.out[1].text = content[1].text \o <<NL>> \o content[2].text

-----------------------------------------------------------------------------
(* Claims about WebPageArchiver._parse_title, under SpecTitle.             *)

TitleSourcesInOrder == <<head_title, og_title, twitter_title>>
NonEmptySources ==
    {i \in 1..3 : TitleSourcesInOrder[i] # NoElement /\ Strip(TitleSourcesInOrder[i]) # <<>>}

\* C10: the title is the trimmed text of the first of <title>, og:title and
\* twitter:title whose trimmed content is not empty, and "Untitled" exactly
\* when there is none.
C10_TitlePriority ==
    tpc = "done" =>
        /\ (title = Untitled) = (NonEmptySources = {})
        /\ \A i \in NonEmptySources :
             (\A j \in NonEmptySources : i <= j) => title = Strip(TitleSourcesInOrder[i])

\* a blank <title> falls through to a non-empty og:title, which wins over
\* a non-empty twitter:title
C10_Witness ==
    /\ tpc = "done"
    /\ head_title # NoElement /\ Strip(head_title) = <<>>
    /\ og_title # NoElement /\ twitter_title # NoElement
    /\ Strip(og_title) # <<>> /\ Strip(twitter_title) # <<>>
    /\ Strip(og_title) # Strip(twitter_title)
    /\ og_title # Strip(og_title)
    /\ title = Strip(og_title)

-----------------------------------------------------------------------------
(* Claims about one archive operation, under Spec.                         *)

NoDuplicateValues(blocks) ==
    \A i, j \in 1..Len(blocks) :
        i < j =>
            /\ ~(blocks[i].text # NoField /\ blocks[i].text = blocks[j].text)
            /\ ~(blocks[i].url # NoField /\ blocks[i].url = blocks[j].url)

\* C1: in the specialized path no two blocks of the consolidated sequence
\* carry the same raw text, and no two the same raw URL.
C1_NoDuplicateValues ==
    (path = "wechat" /\ article_json_obj.bound) =>
        NoDuplicateValues(article_json_obj.children)

\* C4: in the generic path the blocks of an earlier batch come before the
\* blocks of every later batch, and while a request is with the service the
\* replies of all earlier batches, and only those, have been appended.
C4_BatchOrder ==
    path = "web" =>
        /\ Len(block_batch) = Len(paragraphs)
        /\ \A i, j \in 1..Len(block_batch) : i < j => block_batch[i] <= block_batch[j]
        /\ pc = "g_wait" =>
            /\ Len(responses) * BatchSize = batch_id
            /\ \A i \in 1..Len(block_batch) : block_batch[i] < batch_id

\* blocks of two batches are in the list
C4_Witness ==
    /\ path = "web"
    /\ pc = "g_wait"
    /\ \E i, j \in 1..Len(block_batch) : block_batch[i] < block_batch[j]

\* the blocks the replies received so far should have contributed: those of
\* the well-formed replies, in batch order
RECURSIVE BlocksOfWellFormed(_)
BlocksOfWellFormed(rs) ==
    IF rs = <<>> THEN <<>>
    ELSE (IF Head(rs) \in WellFormedReplies THEN Head(rs).items ELSE <<>>)
         \o BlocksOfWellFormed(Tail(rs))

\* C5: a reply that is not JSON or does not have the expected shape makes
\* its batch contribute no block; the blocks of all other batches are kept
\* in order and the extraction is not aborted.
C5_FailureIsolation ==
    (path = "web" /\ Len(responses) > 0 /\ \A k \in 1..Len(responses) : ~responses[k].raises) =>
        /\ pc \in {"g_batch", "g_wait"} => paragraphs = BlocksOfWellFormed(responses)
        /\ pc \in {"g_tags", "store", "done"} =>
            /\ ~article_json_obj.placeholder
            /\ article_json_obj.children = Consolidate(BlocksOfWellFormed(responses)).out

\* C6: when a step of _archive raises, archive fails and the document sink
\* is never invoked.
C6_NoPartialStore ==
    archive_raised =>
        /\ store_calls = 0
        /\ pc \notin {"store"}
        /\ pc = "done" => result.kind = "raised"

C8_MissingRootFails ==
    root_missing =>
        /\ pc = "done"
        /\ result.kind = "raised"
        /\ store_calls = 0

C8_Witness ==
    /\ root_missing
    /\ path = "wechat"
    /\ pc = "done"
    /\ fetches = 1

\* C9: the sink is invoked at most once, only after the URL check succeeded
\* and _archive returned; a failed URL check ends in ValueError with no
\* fetch, no service call and no store; a returned value is the id the store
\* call answered, and a failure of the store call is the failure of archive.
C9_StoreOnce ==
    /\ store_calls <= 1
    /\ store_calls = 1 => (url_exists = "yes" /\ pc = "done" /\ fetches = 1 /\ stored.bound)
    /\ url_exists = "no" =>
        /\ pc = "done"
        /\ result = Raised("ValueError")
        /\ fetches = 0 /\ service_calls = 0 /\ store_calls = 0
    /\ result.kind = "returned" => (store_calls = 1 /\ result.value = store_reply)
    /\ store_reply = "APIResponseError" => result = Raised("APIResponseError")

\* an operation that stored a document and returned its id
C9_Witness ==
    /\ pc = "done"
    /\ store_calls = 1
    /\ result = Returned("page-2")

-----------------------------------------------------------------------------
(* Claims about the tag list, under Spec.                                  *)

HasHash(tag) == \E i \in 1..Len(tag) : tag[i] = "#"

\* C11: in both paths every entry of the tag list of the stored document
\* contains no '#' and has at least 2 characters.
C11_TagsHygienic ==
    (store_calls = 1 /\ stored.tags # NoTags) =>
        \A i \in 1..Len(stored.tags) :
            ~HasHash(stored.tags[i]) /\ StrLen(stored.tags[i]) >= 2

\* the tags the tagging service contributed: those of a parsable reply
ServiceTags == IF tag_reply.parsable THEN tag_reply.tags ELSE <<>>

\* C12: the stored tag list is the page tags, then the author, then the
\* service tags (specialized path), or the service tags after hygiene
\* (generic path); a reply that cannot be parsed contributes no tag and does
\* not fail the operation.
C12_FinalTags ==
    (tag_reply # NoReply /\ ~tag_reply.raises) =>
        /\ ~archive_raised
        /\ store_calls = 1 =>
            /\ path = "wechat" =>
                   stored.tags = TagHygiene(page_tags \o <<page_author>>) \o ServiceTags
            /\ path = "web" => stored.tags = TagHygiene(ServiceTags)

-----------------------------------------------------------------------------
(* Claims about the tree walker and the classifier, under Spec.            *)

\* the blocks the section left last contributed
SectionBlocks == SubSeq(paragraphs, section_start + 1, Len(paragraphs))

\* C13: a section without a descendant of a recognized type whose trimmed
\* text T is not empty yields exactly one block, of kind text with text T;
\* if its trimmed text is empty it yields no block.
C13_SectionFallback ==
    (pc = "w_sections" /\ section_text # NoElement) =>
        IF Strip(section_text) # <<>>
        THEN SectionBlocks = <<[type |-> "text", text |-> Strip(section_text), url |-> NoField]>>
        ELSE SectionBlocks = <<>>

\* a section whose text came out trimmed although an earlier node had
\* already produced a block with that text
C13_Witness ==
    /\ pc = "w_sections"
    /\ section_text = <<SP, "b">>
    /\ section_start > 0
    /\ paragraphs[1].text = <<"b">>

Populated(field) == field # NoField /\ field # NoElement

\* C14: every block the classifier produced has exactly one of text and url
\* populated: image and video blocks only url, all other kinds only text.
C14_OneOfTextUrl ==
    path = "wechat" =>
        \A i \in 1..Len(paragraphs) :
            IF paragraphs[i].type \in {"image", "video"}
            THEN Populated(paragraphs[i].url) /\ paragraphs[i].text = NoField
            ELSE Populated(paragraphs[i].text) /\ paragraphs[i].url = NoField

\* the classifier produced an image block and a block of another kind
C14_Witness ==
    /\ path = "wechat"
    /\ \E i, j \in 1..Len(paragraphs) :
        paragraphs[i].type = "image" /\ paragraphs[j].type \in {"quote", "h2", "text"}

-----------------------------------------------------------------------------
(* Claim about the argument of _consolidate_content, under SpecConsolidate. *)

\* C15: _consolidate_content never mutates a block of its argument: after
\* the call every input block has the kind and the text or url it had
\* before the call (a merged run being a new block, not an input block).
C15_InputUnchanged ==
    cpc = "done" => content_after = content

-----------------------------------------------------------------------------
(* Claim about two archive operations, under SpecOps.                      *)

\* the walk over a list of nodes by an operation that runs alone
RECURSIVE WalkFrom(_, _)
WalkFrom(st, nodes) ==
    IF nodes = <<>> \/ st.raised THEN st
    ELSE LET r == ParseParagraph(Head(nodes), st.cache) IN
         WalkFrom([raised |-> r.raised, blocks |-> st.blocks \o r.blocks, cache |-> r.cache],
                  Tail(nodes))

WalkAlone(nodes) == WalkFrom([raised |-> FALSE, blocks |-> <<>>, cache |-> {}], nodes)

\* C16: the dedup cache is private to one archive operation: whether two
\* operations on one archiver instance run one after the other or
\* interleaved at their suspension points, each produces the blocks it
\* would produce running alone.
C16_CachePrivate ==
    \A o \in Ops :
        /\ (op_pc[o] = "failed") = WalkAlone(op_nodes[o]).raised
        /\ op_pc[o] # "failed" => op_blocks[o] = WalkAlone(op_nodes[o]).blocks

\* the second operation walks, while the first is suspended, a node whose
\* value the first has recorded, and produces its block all the same
C16_Witness ==
    /\ op_pc[1] = "suspended"
    /\ op_pc[2] = "walk"
    /\ op_blocks[1] # <<>>
    /\ op_blocks[2] = op_blocks[1]

-----------------------------------------------------------------------------
(* Claims about the helpers of common/utils.py, under SpecUtils.           *)

Is200(answer) == ~answer.raises /\ answer.status = 200

\* the html of the first element of the page that the selector matches
FirstMatch(page, selector) ==
    IF \E i \in 1..Len(page) : page[i].name = selector
    THEN page[CHOOSE i \in 1..Len(page) :
                /\ page[i].name = selector
                /\ \A j \in 1..(i - 1) : page[j].name # selector].html
    ELSE NoElement

C18_CheckUrlGet ==
    upc = "done" =>
        /\ http_calls = <<[method |-> "get", url |-> site.url]>>
        /\ url_result = Returned(Is200(site.get))

-----------------------------------------------------------------------------
(* Claim about OpenAIChatModel.inference, under SpecModel.                 *)

NoChoices(c) == c.failed \/ c.choices = <<>>

\* C19: inference returns the content of the first choice's message when it
\* is not empty; when the completion has no choices or the client call
\* fails it ends, after at most 3 attempts, by raising 'Failed to parse
\* choices'; it never returns an empty or missing content.
C19_Inference ==
    /\ inf_attempts = Len(inf_seen)
    /\ inf_attempts <= 3
    /\ ipc = "done" =>
        /\ inf_result.kind = "returned" =>
            /\ ~NoChoices(Last(inf_seen))
            /\ inf_result.value = Last(inf_seen).choices[1].content
            /\ inf_result.value \notin {NoElement, <<>>}
        /\ inf_result.kind = "raised" =>
            /\ inf_attempts = 3
            /\ NoChoices(Last(inf_seen)) => inf_result.value = <<"Failed to parse choices">>
        /\ (\A i \in 1..Len(inf_seen) : NoChoices(inf_seen[i])) =>
            inf_result = Raised(<<"Failed to parse choices">>)
    /\ ipc = "call" => inf_attempts < 3

\* three attempts without choices, the client call having failed once
C19_Witness ==
    /\ ipc = "done"
    /\ inf_attempts = 3
    /\ inf_seen[1].failed /\ ~inf_seen[3].failed
    /\ inf_result = Raised(<<"Failed to parse choices">>)

-----------------------------------------------------------------------------
(* Claim about the image host, under Spec.                                 *)

\* C20: a failure of the image host for an image block is not fatal: store
\* still completes, the page is created, and the blocks before and after
\* the image are part of it.
C20_ImageFailureNonFatal ==
    (store_calls = 1 /\ image_outcome \in {"download_failed", "upload_failed"}
        /\ store_reply # "APIResponseError") =>
        /\ result.kind = "returned"
        /\ page_request.sent
        /\ \A i \in 1..Len(stored.children) :
             stored.children[i].type \in {"text", "h2"} =>
                \E k \in 1..Len(page_request.children) :
                    page_request.children[k].content = stored.children[i].text

-----------------------------------------------------------------------------
(* Claim about the page-metadata extractors, under SpecMeta.               *)

\* C21: extraction of author, publish time and tag list never raises when
\* the element is absent from the tree: each yields an empty value.
C21_AbsentIsEmpty ==
    /\ (author_out.kind # "pending" /\ author_element = NoElement) =>
            (author_out.kind = "returned" /\ author_out.value = <<>>)
    /\ (time_out.kind # "pending" /\ time_element = NoElement) =>
            (time_out.kind = "returned" /\ time_out.value = <<>>)
    /\ (tags_out.kind # "pending" /\ tag_elements = <<>>) =>
            (tags_out.kind = "returned" /\ tags_out.value = <<>>)

-----------------------------------------------------------------------------
(* Claim about ArchiverOrchestrator.archive, under Spec.                   *)

\* C22: the orchestrator invokes exactly one archiver per call, the WeChat
\* archiver if and only if the url matches the pattern, otherwise the
\* generic one, and what it returns is the page id of that archiver.
C22_OneArchiver ==
    pc # "orchestrator" =>
        /\ Len(invoked) = 1
        /\ (invoked[1] = "wechat") = MatchWechat(url)
        /\ (invoked[1] = "web") = ~MatchWechat(url)
        /\ path = invoked[1]
        /\ result.kind = "returned" => (store_calls = 1 /\ result.value = store_reply)

\* a url on the WeChat host with another scheme went to the generic
\* archiver, whose page id was returned
C22_Witness ==
    /\ url[2] = "mp.weixin.qq.com"
    /\ invoked = <<"web">>
    /\ result.kind = "returned"

-----------------------------------------------------------------------------
(* Further claims about _consolidate_content, under SpecConsolidate.       *)

Mergeable(block) == block.type \in {"text", "code"}

\* the blocks of a list that are neither text nor code, in order
OtherKinds(blocks) == SelectSeq(blocks, LAMBDA b : ~Mergeable(b))

\* the characters of the text and code blocks of a list, separators dropped
RECURSIVE MergeableChars(_)
MergeableChars(blocks) ==
    IF blocks = <<>> THEN <<>>
    ELSE (IF Mergeable(Head(blocks))
          THEN SelectSeq(Head(blocks).text, LAMBDA c : c # NL)
          ELSE <<>>) \o MergeableChars(Tail(blocks))

\* C23: blocks that are neither text nor code pass through unchanged and in
\* order, and nothing is merged across one: each of them is found in the
\* output with the same such blocks before it and with exactly the text and
\* code characters that precede it in the input.
C23_OthersPassThrough ==
    (cpc = "done" /\ ~consolidated.raised) =>
        /\ OtherKinds(consolidated.out) = OtherKinds(content)
        /\ \A i \in 1..Len(content) :
              ~Mergeable(content[i]) =>
                  \E j \in 1..Len(consolidated.out) :
                      /\ consolidated.out[j] = content[i]
                      /\ OtherKinds(SubSeq(consolidated.out, 1, j)) =
                             OtherKinds(SubSeq(content, 1, i))
                      /\ MergeableChars(SubSeq(consolidated.out, 1, j)) =
                             MergeableChars(SubSeq(content, 1, i))

\* two short text blocks with an image between them stayed three blocks
C23_Witness ==
    /\ cpc = "done"
    /\ Len(content) = 3 /\ Len(consolidated.out) = 3
    /\ content[1].type = "text" /\ content[2].type = "image" /\ content[3].type = "text"
    /\ StrLen(content[1].text) + StrLen(content[3].text) < MaxTextLen

\* C29: consolidating a consolidated list changes nothing.
C29_Idempotent ==
    cpc = "again" =>
        /\ ~consolidated_again.raised
        /\ consolidated_again.out = consolidated.out

\* the first call merged two blocks and left a third one apart, and the
\* second call was made on that result
C29_Witness ==
    /\ cpc = "again"
    /\ Len(content) = 3
    /\ Len(consolidated.out) = 2
    /\ consolidated.out[1].type = consolidated.out[2].type

-----------------------------------------------------------------------------
(* Claims about the walker and the classifier of the specialized path,     *)
(* under Spec.                                                             *)

\* _parse_content is in one of its two loops
Walking == path = "wechat" /\ pc \in {"w_sections", "w_in_section", "w_toplevel"}

PassRank(origin) == IF origin.pass = "toplevel" THEN 2 ELSE 1

\* a step of one of the two loops over recognized nodes
NodeStep == pc \in {"w_in_section", "w_toplevel"} /\ units' = units + 1

\* C24: the blocks of the sections (descendants or fallback) precede the
\* blocks of the direct children of the content root, the blocks of each
\* pass are in the order in which the pass met their nodes, and every node
\* a pass meets is handed to the classifier, whose blocks go to the end.
C24_TwoPasses ==
    /\ [](Walking =>
            /\ Len(block_origin) = Len(paragraphs)
            /\ \A i, j \in 1..Len(block_origin) :
                  i < j => /\ PassRank(block_origin[i]) <= PassRank(block_origin[j])
                           /\ block_origin[i].unit <= block_origin[j].unit
            /\ pc \in {"w_sections", "w_in_section"} =>
                  \A i \in 1..Len(block_origin) : block_origin[i].pass # "toplevel")
    /\ [][NodeStep =>
            /\ last_call'.called /\ last_call'.unit = units'
            /\ ~last_call'.raised => paragraphs' = paragraphs \o last_call'.blocks]_vars

\* a block of a section descendant is followed by a block of a direct child
C24_Witness ==
    /\ Walking
    /\ \E i, j \in 1..Len(block_origin) :
          /\ i < j
          /\ block_origin[i].pass = "section"
          /\ block_origin[j].pass = "toplevel"

\* the raw text or url a block carries
BlockValue(block) == IF block.url # NoField THEN block.url ELSE block.text

\* C25: the cache only grows, a value already in the cache yields no block
\* (nor does a value emitted earlier in the same call), and the value of every
\* block the classifier emitted so far is in the cache.
C25_CacheInStep ==
    /\ [](Walking =>
            \A i \in 1..Len(block_origin) :
                block_origin[i].pass # "fallback" => BlockValue(paragraphs[i]) \in cache)
    /\ [](last_call.called =>
            /\ \A k \in 1..Len(last_call.blocks) :
                  BlockValue(last_call.blocks[k]) \notin last_call.cache
            /\ \A k, l \in 1..Len(last_call.blocks) :
                  k # l => BlockValue(last_call.blocks[k]) # BlockValue(last_call.blocks[l]))
    /\ [][Walking' => cache \subseteq cache']_vars

\* a call on a node whose value was already in the cache emitted nothing,
\* after an earlier call had emitted a block
C25_Witness ==
    /\ last_call.called /\ ~last_call.raised
    /\ last_call.node.name = "blockquote"
    /\ Strip(last_call.node.text) \in last_call.cache
    /\ last_call.blocks = <<>>
    /\ Len(paragraphs) = 1

\* lines 232-236 applied to a span, on the cache the call started with
SpanRule(node, c) ==
    IF Strip(node.text) # <<>> /\ Strip(node.text) \notin c
    THEN <<TextBlock("text", Strip(node.text))>>
    ELSE <<>>

-----------------------------------------------------------------------------
(* Claim about the batches of WebPageArchiver._parse_content, under Spec.  *)

\* the loop of lines 485-489 has run to its end
BatchesDone == pc = "g_batch" /\ batch_id >= num_segments

\* C26: the batches are consecutive slices of the segment list, of 20
\* segments each except the last, which has 1 to 20; once the loop is over
\* they cover the list, and the structuring service was called once per
\* batch, (n + 19) div 20 times.
C26_Batches ==
    path = "web" =>
        /\ \A k \in 1..Len(batch_sizes) :
              /\ batch_sizes[k].first = (k - 1) * BatchSize
              /\ batch_sizes[k].len >= 1 /\ batch_sizes[k].len <= BatchSize
              /\ k < Len(batch_sizes) => batch_sizes[k].len = BatchSize
              /\ batch_sizes[k].first + batch_sizes[k].len <= num_segments
        /\ pc \in {"g_batch", "g_wait"} => service_calls = Len(batch_sizes)
        /\ BatchesDone =>
              /\ Len(batch_sizes) = (num_segments + BatchSize - 1) \div BatchSize
              /\ batch_sizes # <<>> =>
                    Last(batch_sizes).first + Last(batch_sizes).len = num_segments
              /\ Len(responses) = Len(batch_sizes)

\* 41 segments went out in three batches, the last of one segment
C26_Witness ==
    /\ BatchesDone
    /\ num_segments = 2 * BatchSize + 1
    /\ Len(batch_sizes) = 3
    /\ Last(batch_sizes).len = 1

-----------------------------------------------------------------------------
(* Claim about the nested-segment filter, under SpecSegments.              *)

Collected == {i \in 1..Len(seg_names) : seg_names[i] \in SegmentsToInclude}

ProperAncestors(i) == AncestorsOrSelf(seg_parent, seg_parent[i]) \ {0}

Kept == {unique_segments[k] : k \in 1..Len(unique_segments)}

\* C27: the kept segments are, in document order, the collected nodes with
\* no collected ancestor; no kept segment lies inside another, and every
\* collected node is kept or lies inside a kept one.
C27_NestedFilter ==
    spc = "done" =>
        /\ \A k, l \in 1..Len(unique_segments) :
              k < l => unique_segments[k] < unique_segments[l]
        /\ Kept = {i \in Collected : ProperAncestors(i) \cap Collected = {}}
        /\ \A a, b \in Kept : a \notin ProperAncestors(b)
        /\ \A c \in Collected : c \in Kept \/ ProperAncestors(c) \cap Kept # {}

\* <div><span><p/></span></div> followed by a <p/>: the div and the second
\* p are kept, the p inside the span is not
C27_Witness ==
    /\ spc = "done"
    /\ seg_names = <<"div", "span", "p", "p">>
    /\ seg_parent = <<0, 1, 2, 0>>
    /\ unique_segments = <<1, 4>>

-----------------------------------------------------------------------------
(* Claim about the children of the page request, under SpecDatabase.       *)

StoredFor == {"h1", "heading_1", "h2", "heading_2", "h3", "heading_3", "image", "img",
              "text", "span", "numbered_list_item"}

StoredKind(t) ==
    CASE t \in {"h1", "heading_1"} -> "heading_1"
      [] t \in {"h2", "heading_2"} -> "heading_2"
      [] t \in {"h3", "heading_3"} -> "heading_3"
      [] t \in {"image", "img"} -> "embed"
      [] t \in {"text", "span"} -> "paragraph"
      [] OTHER -> t

\* the blocks of the list whose kind has a stored form, in order
Storable == SelectSeq(db_blocks, LAMBDA b : b.type \in StoredFor)

\* C30: the children of the page request are the stored forms of the first
\* blocks of a storable kind, in order, at most 100 of them; blocks of any
\* other kind have no child.
C30_PageChildren ==
    (dpc = "done" /\ db_request.sent) =>
        /\ Len(db_request.children) <= 100
        /\ Len(db_request.children) = IF Len(Storable) < 100 THEN Len(Storable) ELSE 100
        /\ \A k \in 1..Len(db_request.children) :
              /\ db_request.children[k].type = StoredKind(Storable[k].type)
              /\ Storable[k].type \notin {"image", "img"} =>
                    db_request.children[k].content = Storable[k].text

\* a list of a heading, a quote and 101 text blocks: the quote has no
\* child and the request carries the first 100 of the 102 others
C30_Witness ==
    /\ dpc = "done" /\ db_request.sent
    /\ Len(db_blocks) = 103
    /\ db_blocks[1].type = "h1" /\ db_blocks[2].type = "quote"
    /\ Len(db_request.children) = 100
    /\ db_request.children[2].type = "paragraph"

====
